---- MODULE Spec2Model ----
(***************************************************************************)
(* Model of the airfoil shape optimization repository:                     *)
(*   - DataLoader      (src/airfoil_shape_optimization/data_loader.py)     *)
(*   - AirfoilGenerator (src/airfoil_shape_optimization/generate_airfoil.py)*)
(*   - ComputeInitialConditions                                            *)
(*       (src/airfoil_shape_optimization/compute_initial_conditions.py)    *)
(* Python floats and torch tensors are modelled by exact (extended)        *)
(* rationals <<n, d>>: d > 0 is the finite value n/d in lowest terms,      *)
(* <<1, 0>> is +inf, <<-1, 0>> is -inf and <<0, 0>> is NaN.                *)
(***************************************************************************)
EXTENDS Integers, Sequences, FiniteSets, TLC

VARIABLES
    dl_constructed,   \* a DataLoader instance exists
    dl_cfg,           \* the attributes __init__ sets from its arguments
    dl_coefficients,  \* self._coefficients: label -> Series | []
    dl_alpha,         \* self._alpha: list of labels
    dl_objective,     \* self._objective
    dl_trial_no,      \* self._trial_no
    polar_file,       \* the polar_trial_<n>.dat most recently opened for writing
    dl_loaded,        \* labels appended by the last call's _load_force_coefficients
    dl_scored,        \* self._alpha / self._coefficients as _compute_objective saw them
    dl_result,        \* how the last evaluate_trial call ended
    dl_run_directory, \* the run_directory the last evaluate_trial call was given
    gen_constructed,  \* an AirfoilGenerator instance exists
    gen_cfg,          \* _write_dat_file, _x_start, _x_stop, _n_points, _cos_distributed
    gen_params,       \* _name, _write_path, _write_file, _n1, _n2, _kr, _f_max, _xf_max, _t_max
    gen_x,            \* self._x
    gen_y,            \* self._y (<<>> stands for None)
    gen_thickness,    \* self._thickness_distribution (<<>> stands for None)
    gen_camber,       \* self._camber_line (<<>> stands for None)
    fs_dirs,          \* the directories that exist
    fs_files,         \* the airfoil files, by path
    gen_result,       \* how the last generate_airfoil call ended
    gen_grid,         \* self._x as the last generate_airfoil call found it
    gen_outline,      \* self._x, self._y as line 107 of the last call left them
    loaders,          \* two DataLoader instances: the attributes of each
    loader_dirs,      \* the polar file in the simulation_path of each DataLoader
    generators,       \* two AirfoilGenerator instances: the attributes of each
    generator_dirs,   \* the airfoil file in the write directory of each generator
    alone,            \* each instance and its directory with the same calls made
                      \* in a process that holds no other instance
    ic_args,          \* the arguments of the last ComputeInitialConditions(...) call
    ic_self,          \* the attributes of the ComputeInitialConditions instance
    ic_result,        \* how the last ComputeInitialConditions(...) call ended
    sim_self,         \* the attributes of the ModifySimulationSetup instance
    sim_files,        \* the case directories: directory -> file -> lines
    sim_result,       \* how the last call on ModifySimulationSetup ended
    run_script,       \* the script that runs: main.py or execute_validation.py
    run_pc,           \* the statement the script is at
    run_settings,     \* the settings dict of run_optimization
    run_objects,      \* the objects the script has constructed, by variable name
    run_log,          \* the calls the script has made, in order
    run_error         \* the exception that ended the script

dl_vars == <<dl_constructed, dl_cfg, dl_coefficients, dl_alpha, dl_objective,
             dl_trial_no, polar_file, dl_loaded, dl_scored, dl_result,
             dl_run_directory>>

gen_vars == <<gen_constructed, gen_cfg, gen_params, gen_x, gen_y, gen_thickness,
              gen_camber, fs_dirs, fs_files, gen_result, gen_grid, gen_outline>>

inst_vars == <<loaders, loader_dirs, generators, generator_dirs, alone>>

ic_vars == <<ic_args, ic_self, ic_result>>

sim_vars == <<sim_self, sim_files, sim_result>>

scr_vars == <<run_script, run_pc, run_settings, run_objects, run_log, run_error>>

run_vars == <<sim_vars, scr_vars>>

vars == <<dl_vars, gen_vars, inst_vars, ic_vars, run_vars>>

----------------------------------------------------------------------------
(* Bounds of the model *)

\* self._alpha is never grown beyond MaxAlphaLen entries
MaxAlphaLen == 3

\* generate_airfoil is called while self._x has at most MaxGridLen entries
MaxGridLen == 5

----------------------------------------------------------------------------
(* Rational arithmetic standing for Python float arithmetic *)

Abs(i) == IF i < 0 THEN -i ELSE i

RECURSIVE GCD(_, _)
GCD(a, b) == IF b = 0 THEN a ELSE GCD(b, a % b)

\* the finite rational n/d (d # 0) in lowest terms with a positive denominator
Rat(n, d) ==
    LET g == GCD(Abs(n), Abs(d))
        s == IF d < 0 THEN -1 ELSE 1
    IN  <<(s * n) \div g, (s * d) \div g>>

RInt(i) == <<i, 1>>
RAdd(a, b) == Rat(a[1] * b[2] + b[1] * a[2], a[2] * b[2])
RNeg(a) == <<-a[1], a[2]>>
RSub(a, b) == RAdd(a, RNeg(b))
RMul(a, b) == Rat(a[1] * b[1], a[2] * b[2])
RDiv(a, b) == Rat(a[1] * b[2], a[2] * b[1])
RAbs(a) == <<Abs(a[1]), a[2]>>
RLess(a, b) == a[1] * b[2] < b[1] * a[2]
RIsZero(a) == a[1] = 0 /\ a[2] # 0

RECURSIVE Pow10(_)
Pow10(p) == IF p = 0 THEN 1 ELSE 10 * Pow10(p - 1)

\* "{:.<p>f}".format(x): x rounded to p decimals (ties to even), as the value
\* a reader of the text gets back
RECURSIVE Decimals(_, _, _, _)
\* long division: <<floor(q + r/d scaled by 10^p), remainder>>
Decimals(q, r, d, p) ==
    IF p = 0 THEN <<q, r>>
    ELSE Decimals(10 * q + ((10 * r) \div d), (10 * r) % d, d, p - 1)

FormatFixed(x, p) ==
    LET qr == Decimals(x[1] \div x[2], x[1] % x[2], x[2], p)
        up == 2 * qr[2] > x[2] \/ (2 * qr[2] = x[2] /\ qr[1] % 2 = 1)
    IN  Rat(IF up THEN qr[1] + 1 ELSE qr[1], Pow10(p))

----------------------------------------------------------------------------
(* Solver output read by the DataLoader *)

\* names of the directories postProcessing/forces/alpha_<label>
Labels == {"-2", "0", "12"}

\* float(label)
FloatOf(label) ==
    CASE label = "-2" -> RInt(-2)
      [] label = "0"  -> RInt(0)
      [] label = "12" -> RInt(12)

\* rows of a coefficient.dat, columns 0, 1, 4, 7 (names t, cx, cy, cm_pitch)
RowA == [t |-> 1, cx |-> Rat(1, 50), cy |-> Rat(2, 5), cm_pitch |-> Rat(-1, 100)]
RowB == [t |-> 2, cx |-> Rat(3, 100), cy |-> Rat(1, 2), cm_pitch |-> Rat(1, 50)]

\* a coefficient.dat that was not written (the run did not converge), or its rows
NoCoefficientFile == [exists |-> FALSE, rows |-> <<>>]
CoefficientFiles ==
    { [exists |-> TRUE, rows |-> <<RowB, RowA>>],
      [exists |-> TRUE, rows |-> <<RowA, RowB>>] }

\* the alpha_* directories of a run directory, each with its coefficient.dat
RunDirectories ==
    UNION { [D -> CoefficientFiles \cup {NoCoefficientFile}] : D \in SUBSET Labels }

\* trial indices passed to evaluate_trial (the index only names the polar file)
Trials == {1}

\* load_force_coefficients reading the first row (.iloc[0])
load_force_coefficientsFirstRow(dir, label) ==
    IF dir[label].exists
    THEN [raised |-> FALSE,
          value  |-> [kind     |-> "Series",
                      cx       |-> dir[label].rows[1].cx,
                      cy       |-> dir[label].rows[1].cy,
                      cm_pitch |-> dir[label].rows[1].cm_pitch]]
    ELSE [raised |-> TRUE, value |-> [kind |-> "none"]]

\* what load_force_coefficients(run_directory, "alpha_<label>") gives: the last
\* row as a Series, or FileNotFoundError
load_force_coefficients(dir, label) ==
    IF dir[label].exists
    THEN [raised |-> FALSE,
          value  |-> [kind     |-> "Series",
                      cx       |-> dir[label].rows[Len(dir[label].rows)].cx,
                      cy       |-> dir[label].rows[Len(dir[label].rows)].cy,
                      cm_pitch |-> dir[label].rows[Len(dir[label].rows)].cm_pitch]]
    ELSE [raised |-> TRUE, value |-> [kind |-> "none"]]

\* the value stored for an angle whose file is missing: the empty list []
EmptyList == [kind |-> "list"]

\* isinstance(x, Series)
IsSeries(x) == x.kind = "Series"

----------------------------------------------------------------------------
(* DataLoader *)

\* arguments DataLoader is constructed with
LoaderArgs ==
    { \* the scenario of main.py with the weights of the documented example
      [cl_target |-> Rat(2, 5), alpha_target |-> RInt(0), alpha_range |-> <<-2, 5>>,
       write_precision |-> 6, c1 |-> Rat(9, 20), c2 |-> Rat(1, 4), c3 |-> Rat(1, 5),
       value_not_converged |-> RInt(1)],
      \* the default weights, design angle at the lower end, range given unsorted
      [cl_target |-> Rat(1, 2), alpha_target |-> RInt(-2), alpha_range |-> <<5, -2>>,
       write_precision |-> 1, c1 |-> Rat(9, 20), c2 |-> Rat(2, 5), c3 |-> Rat(1, 20),
       value_not_converged |-> RInt(3)],
      \* a range of a single angle
      [cl_target |-> Rat(2, 5), alpha_target |-> RInt(5), alpha_range |-> <<5, 5>>,
       write_precision |-> 6, c1 |-> Rat(9, 20), c2 |-> Rat(2, 5), c3 |-> Rat(1, 20),
       value_not_converged |-> RInt(1)] }

RECURSIVE SeqMin(_)
SeqMin(s) ==
    IF Len(s) = 1 THEN s[1]
    ELSE LET m == SeqMin(Tail(s)) IN IF s[1] < m THEN s[1] ELSE m

RECURSIVE SeqMax(_)
SeqMax(s) ==
    IF Len(s) = 1 THEN s[1]
    ELSE LET m == SeqMax(Tail(s)) IN IF s[1] > m THEN s[1] ELSE m

EmptyDict == [l \in {} |-> EmptyList]
NoFile == [exists |-> FALSE, trial_no |-> 0, header |-> <<>>, rule |-> <<>>, rows |-> <<>>]
NoResult == [kind |-> "none", value |-> RInt(0), error |-> ""]
Returned(v) == [kind |-> "returned", value |-> v, error |-> ""]
Raised(e) == [kind |-> "raised", value |-> RInt(0), error |-> e]

\* the attributes __init__ derives from its arguments
LoaderAttributes(args) ==
    [cl_target |-> args.cl_target,
     alpha_target |-> args.alpha_target,
     alpha_min |-> RInt(SeqMin(args.alpha_range)),
     alpha_max |-> RInt(SeqMax(args.alpha_range)),
     header |-> <<"alpha", "cd", "cl", "cm_pitch">>,
     rule |-> [i \in 1..4 |-> args.write_precision + 2],
     precision |-> args.write_precision,
     c1 |-> args.c1, c2 |-> args.c2, c3 |-> args.c3,
     value_not_converged |-> args.value_not_converged]

\* the attribute record before any DataLoader is constructed
NoLoader ==
    [cl_target |-> RInt(0), alpha_target |-> RInt(0), alpha_min |-> RInt(0),
     alpha_max |-> RInt(0), header |-> <<>>, rule |-> <<>>, precision |-> 0,
     c1 |-> RInt(0), c2 |-> RInt(0), c3 |-> RInt(0), value_not_converged |-> RInt(0)]

\* DataLoader.__init__
DataLoaderInit(args) ==
    /\ ~dl_constructed
    /\ dl_constructed' = TRUE
    /\ dl_cfg' = LoaderAttributes(args)
    /\ dl_coefficients' = EmptyDict
    /\ dl_trial_no' = 0
    /\ dl_objective' = RInt(0)
    /\ dl_alpha' = <<>>
    /\ UNCHANGED <<polar_file, dl_loaded, dl_scored, dl_result, dl_run_directory>>
    /\ UNCHANGED gen_vars
    /\ UNCHANGED inst_vars
    /\ UNCHANGED ic_vars
    /\ UNCHANGED run_vars

\* sorted(_directories, key=lambda x: float(x.split("_")[-1]))
RECURSIVE SortedLabels(_)
SortedLabels(D) ==
    IF D = {} THEN <<>>
    ELSE LET m == CHOOSE x \in D : \A y \in D : ~RLess(FloatOf(y), FloatOf(x))
         IN  <<m>> \o SortedLabels(D \ {m})

\* _load_force_coefficients: the coefficient map after the loop over the directories
LoadedCoefficients(coefficients, dir) ==
    [l \in (DOMAIN coefficients) \cup (DOMAIN dir) |->
        IF l \in DOMAIN dir
        THEN IF load_force_coefficients(dir, l).raised
             THEN EmptyList
             ELSE load_force_coefficients(dir, l).value
        ELSE coefficients[l]]

\* _load_force_coefficients: the angle list after the loop over the directories
LoadedAlpha(alpha, dir) == alpha \o SortedLabels(DOMAIN dir)

\* Contribution with the pitching moment taken with its sign
ContributionSignedMoment(a, coefficients, cfg) ==
    IF IsSeries(coefficients[a])
    THEN IF FloatOf(a) = cfg.alpha_target
         THEN RAdd(RAdd(RMul(cfg.c1, coefficients[a].cx),
                        RMul(cfg.c2, RAbs(RSub(cfg.cl_target, coefficients[a].cy)))),
                   RMul(cfg.c3, coefficients[a].cm_pitch))
         ELSE RMul(cfg.c1, coefficients[a].cx)
    ELSE cfg.value_not_converged

\* Contribution with the penalty of a non-converged angle weighted by c1
ContributionPenaltyWeighted(a, coefficients, cfg) ==
    IF IsSeries(coefficients[a])
    THEN IF FloatOf(a) = cfg.alpha_target
         THEN RAdd(RAdd(RMul(cfg.c1, coefficients[a].cx),
                        RMul(cfg.c2, RAbs(RSub(cfg.cl_target, coefficients[a].cy)))),
                   RMul(cfg.c3, RAbs(coefficients[a].cm_pitch)))
         ELSE RMul(cfg.c1, coefficients[a].cx)
    ELSE RMul(cfg.c1, cfg.value_not_converged)

\* Contribution with the lift deviation added without its weight c2
ContributionUnweightedLift(a, coefficients, cfg) ==
    IF IsSeries(coefficients[a])
    THEN IF FloatOf(a) = cfg.alpha_target
         THEN RAdd(RAdd(RMul(cfg.c1, coefficients[a].cx),
                        RAbs(RSub(cfg.cl_target, coefficients[a].cy))),
                   RMul(cfg.c3, RAbs(coefficients[a].cm_pitch)))
         ELSE RMul(cfg.c1, coefficients[a].cx)
    ELSE cfg.value_not_converged

\* _compute_objective, the entry appended to _obj for angle a
Contribution(a, coefficients, cfg) ==
    IF IsSeries(coefficients[a])
    THEN IF FloatOf(a) = cfg.alpha_target
         THEN RAdd(RAdd(RMul(cfg.c1, coefficients[a].cx),
                        RMul(cfg.c2, RAbs(RSub(cfg.cl_target, coefficients[a].cy)))),
                   RMul(cfg.c3, RAbs(coefficients[a].cm_pitch)))
         ELSE RMul(cfg.c1, coefficients[a].cx)
    ELSE cfg.value_not_converged

\* _compute_objective, the entry appended to _weight for angle a (the divisor is
\* not zero)
Weight(a, cfg) ==
    RSub(RInt(1), RDiv(RAbs(RSub(cfg.alpha_target, FloatOf(a))),
                       RSub(cfg.alpha_max, cfg.alpha_min)))

\* sum(w * o for w, o in zip(_weight, _obj))
RECURSIVE WeightedSum(_, _, _)
WeightedSum(alpha, coefficients, cfg) ==
    IF alpha = <<>> THEN RInt(0)
    ELSE RAdd(WeightedSum(SubSeq(alpha, 1, Len(alpha) - 1), coefficients, cfg),
              RMul(Weight(alpha[Len(alpha)], cfg),
                   Contribution(alpha[Len(alpha)], coefficients, cfg)))

\* _compute_objective: the float division raises ZeroDivisionError in the first
\* pass of the loop when alpha_max = alpha_min
ComputeObjective(alpha, coefficients, cfg) ==
    IF alpha # <<>> /\ cfg.alpha_max = cfg.alpha_min
    THEN Raised("ZeroDivisionError")
    ELSE Returned(WeightedSum(alpha, coefficients, cfg))

\* PolarRow with the columns of cx and cy exchanged
PolarRowLiftFirst(a, coefficients, cfg) ==
    <<FormatFixed(FloatOf(a), cfg.precision),
      FormatFixed(coefficients[a].cy, cfg.precision),
      FormatFixed(coefficients[a].cx, cfg.precision),
      FormatFixed(coefficients[a].cm_pitch, cfg.precision)>>

\* _write_polar_file, one row
PolarRow(a, coefficients, cfg) ==
    <<FormatFixed(FloatOf(a), cfg.precision),
      FormatFixed(coefficients[a].cx, cfg.precision),
      FormatFixed(coefficients[a].cy, cfg.precision),
      FormatFixed(coefficients[a].cm_pitch, cfg.precision)>>

\* _write_polar_file: the number of rows written before [] is indexed with "cx"
\* (TypeError), or all of them
RECURSIVE RowsWritable(_, _)
RowsWritable(alpha, coefficients) ==
    IF alpha = <<>> \/ ~IsSeries(coefficients[Head(alpha)]) THEN 0
    ELSE 1 + RowsWritable(Tail(alpha), coefficients)

\* _write_polar_file: the file as it is when the with block is left
WritePolarFile(trial_no, alpha, coefficients, cfg) ==
    LET n == RowsWritable(alpha, coefficients)
    IN  [raised |-> n < Len(alpha),
         file   |-> [exists |-> TRUE, trial_no |-> trial_no,
                     header |-> cfg.header, rule |-> cfg.rule,
                     rows |-> [i \in 1..n |-> PolarRow(alpha[i], coefficients, cfg)]]]

\* DataLoader.evaluate_trial(trial_no, run_directory)
evaluate_trial(trial_no, dir) ==
    /\ dl_constructed
    /\ Len(dl_alpha) + Cardinality(DOMAIN dir) <= MaxAlphaLen
    /\ \E alpha1 \in {LoadedAlpha(dl_alpha, dir)},
          coeff1 \in {LoadedCoefficients(dl_coefficients, dir)} :
       \E scored \in {ComputeObjective(alpha1, coeff1, dl_cfg)},
          write \in {WritePolarFile(trial_no, alpha1, coeff1, dl_cfg)} :
        /\ dl_trial_no' = trial_no
        /\ dl_loaded' = SortedLabels(DOMAIN dir)
        /\ dl_run_directory' = dir
        /\ dl_scored' = [alpha |-> alpha1, coefficients |-> coeff1]
        /\ IF scored.kind = "raised"
           THEN /\ dl_alpha' = alpha1
                /\ dl_coefficients' = coeff1
                /\ dl_result' = scored
                /\ UNCHANGED <<dl_objective, polar_file>>
           ELSE /\ polar_file' = write.file
                /\ IF write.raised
                   THEN /\ dl_alpha' = alpha1
                        /\ dl_coefficients' = coeff1
                        /\ dl_objective' = scored.value
                        /\ dl_result' = Raised("TypeError")
                   ELSE /\ dl_alpha' = <<>>
                        /\ dl_coefficients' = EmptyDict
                        /\ dl_objective' = RInt(0)
                        /\ dl_result' = Returned(scored.value)
        /\ UNCHANGED <<dl_constructed, dl_cfg>>
        /\ UNCHANGED gen_vars
    /\ UNCHANGED inst_vars
    /\ UNCHANGED ic_vars
    /\ UNCHANGED run_vars

\* the lines of a polar file: the two lines of self._header, then the rows
PolarLines(file) == <<file.header, file.rule>> \o file.rows

\* load_polar_files, the DataFrame of one file with at least one row: the first
\* two lines are skipped and columns 0..3 are named alpha, cd, cl, cm_pitch
load_polar_files(file) ==
    [i \in 1..(Len(PolarLines(file)) - 2) |->
        [alpha    |-> PolarLines(file)[i + 2][1],
         cd       |-> PolarLines(file)[i + 2][2],
         cl       |-> PolarLines(file)[i + 2][3],
         cm_pitch |-> PolarLines(file)[i + 2][4]]]

InitLoader ==
    /\ dl_constructed = FALSE
    /\ dl_cfg = NoLoader
    /\ dl_coefficients = EmptyDict
    /\ dl_alpha = <<>>
    /\ dl_objective = RInt(0)
    /\ dl_trial_no = 0
    /\ polar_file = NoFile
    /\ dl_loaded = <<>>
    /\ dl_scored = [alpha |-> <<>>, coefficients |-> EmptyDict]
    /\ dl_result = NoResult
    /\ dl_run_directory = [l \in {} |-> NoCoefficientFile]

----------------------------------------------------------------------------
(* Properties of the DataLoader *)

Range(s) == { s[i] : i \in DOMAIN s }
NoDuplicates(s) == \A i, j \in DOMAIN s : s[i] = s[j] => i = j

\* an evaluate_trial call has ended
Called == dl_result.kind # "none"
\* the last call got as far as _compute_objective's assignment of self._objective
Scored == dl_result.kind = "returned" \/ dl_result = Raised("TypeError")
\* the value _compute_objective assigned in the last call
ScoredValue == IF dl_result.kind = "returned" THEN dl_result.value ELSE dl_objective

Converged(a) == IsSeries(dl_scored.coefficients[a])
ScoredAngles == Range(dl_scored.alpha)
ConvergedAngles == { a \in ScoredAngles : Converged(a) }
NonConvergedAngles == ScoredAngles \ ConvergedAngles

\* w(a) = 1 - |alpha_target - a| / (alpha_max - alpha_min), not clamped
ClaimedWeight(a) ==
    LET dist == RAbs(RSub(dl_cfg.alpha_target, FloatOf(a)))
        span == RSub(dl_cfg.alpha_max, dl_cfg.alpha_min)
    IN  Rat(span[1] * dist[2] - dist[1] * span[2], span[1] * dist[2])

\* the contribution the specification gives a converged sample
ClaimedContribution(a) ==
    LET c == dl_scored.coefficients[a]
        drag == RMul(dl_cfg.c1, c.cx)
    IN  IF FloatOf(a) # dl_cfg.alpha_target THEN drag
        ELSE RAdd(drag, RAdd(RMul(dl_cfg.c2, RAbs(RSub(dl_cfg.cl_target, c.cy))),
                             RMul(dl_cfg.c3, RAbs(c.cm_pitch))))

RECURSIVE SumOver(_, _)
SumOver(S, f) ==
    IF S = {} THEN RInt(0)
    ELSE LET x == CHOOSE y \in S : TRUE IN RAdd(f[x], SumOver(S \ {x}, f))

ClaimedConvergedSum ==
    SumOver(ConvergedAngles,
            [a \in ConvergedAngles |-> RMul(ClaimedWeight(a), ClaimedContribution(a))])

SumOfWeights(S) == SumOver(S, [a \in S |-> ClaimedWeight(a)])

\* the configuration and the polar of the documented scoring example
ExampleScenario ==
    /\ dl_cfg.alpha_target = RInt(0)
    /\ dl_cfg.alpha_min = RInt(-2) /\ dl_cfg.alpha_max = RInt(5)
    /\ dl_cfg.cl_target = Rat(2, 5)
    /\ dl_cfg.c1 = Rat(45, 100) /\ dl_cfg.c2 = Rat(25, 100) /\ dl_cfg.c3 = Rat(2, 10)
    /\ dl_scored.alpha = <<"0">>
    /\ Converged("0")
    /\ dl_scored.coefficients["0"].cx = Rat(2, 100)
    /\ dl_scored.coefficients["0"].cy = Rat(4, 10)
    /\ dl_scored.coefficients["0"].cm_pitch = Rat(-1, 100)

\* C1: the polar scored in an evaluate_trial call contains only the samples
\* loaded during that call; what an earlier call accumulated (whether it returned
\* or raised) was cleared and is not scored again.
C1_ScoresOnlyLoaded ==
    Called => /\ dl_scored.alpha = dl_loaded
              /\ DOMAIN dl_scored.coefficients = Range(dl_loaded)

\* C2: evaluate_trial on a polar with a non-converged angle does not raise: it
\* returns the objective in which that angle contributes value_not_converged.
C2_NonConvergedReturns ==
    (Called /\ dl_cfg.alpha_min # dl_cfg.alpha_max /\ NonConvergedAngles # {})
        => dl_result.kind = "returned"

\* C3: writing the polar record of a polar with a non-converged angle completes,
\* and the rows of all converged angles are in the file.
C3_PolarWriteCompletes ==
    (Called /\ dl_cfg.alpha_min # dl_cfg.alpha_max /\ NonConvergedAngles # {})
        => /\ dl_result # Raised("TypeError")
           /\ polar_file.exists /\ polar_file.trial_no = dl_trial_no
           /\ \A a \in ConvergedAngles :
                \E i \in DOMAIN polar_file.rows :
                    polar_file.rows[i][1] = FormatFixed(FloatOf(a), dl_cfg.precision)

\* C4: scoring an empty polar (no angle directory found) fails with EmptyPolar and
\* never returns a default value as the objective.
C4_EmptyPolarFails ==
    (Called /\ dl_scored.alpha = <<>>) => dl_result = Raised("EmptyPolar")

\* C5: the objective of a polar of converged samples is the sum over its angles a
\* of w(a) * contribution(a), with w(a) unclamped, contribution(a) = c1*cx off the
\* design angle and c1*cx + c2*|cl_target - cy| + c3*|cm_pitch| at it; the
\* documented example scores 0.011.
C5_ObjectiveFormula ==
    /\ (dl_result.kind = "returned" /\ NoDuplicates(dl_scored.alpha))
          => dl_result.value = ClaimedConvergedSum
    /\ (dl_result.kind = "returned" /\ ExampleScenario)
          => dl_result.value = Rat(11, 1000)

C5_Witness ==
    /\ dl_result.kind = "returned"
    /\ ExampleScenario
    /\ dl_result.value = Rat(11, 1000)

\* C6: a non-converged sample contributes exactly value_not_converged before
\* weighting, at the design angle or off it; a polar of only non-converged
\* samples scores value_not_converged times the sum of the weights of its angles.
C6_PenaltyContribution ==
    (Scored /\ NoDuplicates(dl_scored.alpha) /\ NonConvergedAngles # {})
        => /\ ScoredValue =
                RAdd(ClaimedConvergedSum,
                     RMul(dl_cfg.value_not_converged, SumOfWeights(NonConvergedAngles)))
           /\ ConvergedAngles = {}
                => ScoredValue =
                     RMul(dl_cfg.value_not_converged, SumOfWeights(ScoredAngles))

C6_Witness ==
    /\ Scored
    /\ dl_scored.alpha = <<"-2", "0", "12">>
    /\ ConvergedAngles = {}
    /\ dl_cfg.alpha_target = RInt(-2)
    /\ dl_cfg.value_not_converged = RInt(3)
    /\ ScoredValue = RMul(RInt(3), SumOfWeights({"-2", "0", "12"}))

\* C7: a DataLoader with alpha_min = alpha_max is rejected at construction, so the
\* weighting step never divides by zero.
C7_DegenerateRangeRejected ==
    /\ dl_constructed => dl_cfg.alpha_min # dl_cfg.alpha_max
    /\ dl_result # Raised("ZeroDivisionError")

\* the loader attributes with c1, c2 and c3 multiplied by k
ScaledWeights(cfg, k) ==
    [cfg EXCEPT !.c1 = RMul(k, cfg.c1), !.c2 = RMul(k, cfg.c2), !.c3 = RMul(k, cfg.c3)]

ScaleFactors == {Rat(2, 1), Rat(1, 2), Rat(3, 1)}

\* the scored polar is weight-linear: with c1, c2, c3 multiplied by k the
\* objective is k times the objective scored
WeightLinear ==
    \A k \in ScaleFactors :
        WeightedSum(dl_scored.alpha, dl_scored.coefficients, ScaledWeights(dl_cfg, k))
            = RMul(k, ScoredValue)

\* C8 as stated: for every polar, multiplying c1, c2 and c3 by the same positive
\* constant k multiplies the objective by k.
C8_WeightLinearEveryPolar == Scored => WeightLinear

\* C8 as amended: for every polar whose samples all converged, multiplying c1, c2
\* and c3 by the same positive constant k multiplies the objective by k.
C8_WeightLinearConverged ==
    (Scored /\ NonConvergedAngles = {}) => WeightLinear

C8_Witness ==
    /\ dl_result.kind = "returned"
    /\ Cardinality(ScoredAngles) = 3
    /\ dl_result.value # RInt(0)
    /\ WeightLinear

----------------------------------------------------------------------------
(* IEEE arithmetic of torch tensors on extended rationals (signed zeros are  *)
(* not distinguished)                                                        *)

Sgn(i) == IF i > 0 THEN 1 ELSE IF i < 0 THEN -1 ELSE 0
NaN == <<0, 0>>
PosInf == <<1, 0>>
IsNaN(a) == a = NaN
IsFinite(a) == a[2] > 0
FNorm(n, d) == IF d = 0 THEN <<Sgn(n), 0>> ELSE Rat(n, d)
FAdd(a, b) ==
    IF a[2] = 0 /\ b[2] = 0
    THEN (IF a = b THEN a ELSE NaN)
    ELSE FNorm(a[1] * b[2] + b[1] * a[2], a[2] * b[2])
FNeg(a) == <<-a[1], a[2]>>
FSub(a, b) == FAdd(a, FNeg(b))
FMul(a, b) == FNorm(a[1] * b[1], a[2] * b[2])
FRecip(a) == IF a[1] < 0 THEN <<-a[2], -a[1]>> ELSE <<a[2], a[1]>>
FDiv(a, b) == FMul(a, FRecip(b))
\* a > b; False when either is NaN
FGreater(a, b) == ~IsNaN(a) /\ ~IsNaN(b) /\ a[1] * b[2] > b[1] * a[2]

\* torch.pow(x, n) for an integer exponent n
RECURSIVE FPow(_, _)
FPow(x, n) ==
    IF n = 0 THEN RInt(1)
    ELSE IF n < 0 THEN FDiv(RInt(1), FPow(x, -n))
    ELSE FMul(x, FPow(x, n - 1))

\* cos(pi * x) where it is rational: x a multiple of 1/2 or of 1/3
CosPi(x) ==
    LET k6 == ((6 * x[1]) \div x[2]) % 12     \* x = k6 / 6 modulo 2
    IN  CASE k6 = 0 -> RInt(1)
          [] k6 \in {2, 10} -> Rat(1, 2)
          [] k6 \in {3, 9} -> RInt(0)
          [] k6 \in {4, 8} -> Rat(-1, 2)
          [] k6 = 6 -> RInt(-1)

\* the builtin max over a tensor: the first element no later one is > than
RECURSIVE PyMax(_)
PyMax(t) ==
    IF Len(t) = 1 THEN t[1]
    ELSE LET m == PyMax(SubSeq(t, 1, Len(t) - 1))
         IN  IF FGreater(t[Len(t)], m) THEN t[Len(t)] ELSE m

\* tensor.min() and tensor.max() of a tensor of finite values
RECURSIVE TensorMin(_)
TensorMin(t) ==
    IF Len(t) = 1 THEN t[1]
    ELSE LET m == TensorMin(Tail(t)) IN IF FGreater(m, t[1]) THEN t[1] ELSE m
RECURSIVE TensorMax(_)
TensorMax(t) ==
    IF Len(t) = 1 THEN t[1]
    ELSE LET m == TensorMax(Tail(t)) IN IF FGreater(t[1], m) THEN t[1] ELSE m

\* a tensor given by its elements, with every element evaluated
Tensor(t) == t \o <<>>

\* reversed(t)
Reversed(t) == Tensor([i \in 1..Len(t) |-> t[Len(t) + 1 - i]])

----------------------------------------------------------------------------
(* AirfoilGenerator *)

\* arguments AirfoilGenerator is constructed with
GeneratorArgs ==
    { [n_points |-> 4, cosine_distributed |-> FALSE, x_start |-> RInt(0),
       x_stop |-> RInt(1), output |-> "dat"],
      [n_points |-> 3, cosine_distributed |-> TRUE, x_start |-> RInt(0),
       x_stop |-> Rat(2, 3), output |-> "DAT"],
      [n_points |-> 4, cosine_distributed |-> TRUE, x_start |-> RInt(0),
       x_stop |-> RInt(1), output |-> "stl"],
      \* a unit chord that does not start at 0
      [n_points |-> 4, cosine_distributed |-> TRUE, x_start |-> RInt(1),
       x_stop |-> RInt(2), output |-> "dat"] }

\* shape parameters passed to generate_airfoil: valid ones, and ones with a
\* non-positive exponent, kr = 0 or xf = 0
ShapeParameters ==
    { [n1 |-> 1, n2 |-> 1, kr |-> Rat(1, 2), f_max |-> Rat(1, 50), xf |-> Rat(1, 2),
       t_max |-> Rat(1, 10)],
      [n1 |-> 1, n2 |-> 2, kr |-> RInt(1), f_max |-> Rat(1, 50), xf |-> Rat(1, 4),
       t_max |-> Rat(1, 5)],
      [n1 |-> 0, n2 |-> 1, kr |-> Rat(1, 2), f_max |-> Rat(1, 50), xf |-> Rat(1, 2),
       t_max |-> Rat(1, 10)],
      [n1 |-> -1, n2 |-> 1, kr |-> Rat(1, 2), f_max |-> Rat(1, 50), xf |-> Rat(1, 2),
       t_max |-> Rat(1, 10)],
      [n1 |-> 1, n2 |-> 0, kr |-> Rat(1, 2), f_max |-> Rat(1, 50), xf |-> Rat(1, 2),
       t_max |-> Rat(1, 10)],
      [n1 |-> 1, n2 |-> -1, kr |-> Rat(1, 2), f_max |-> Rat(1, 50), xf |-> Rat(1, 2),
       t_max |-> Rat(1, 10)],
      [n1 |-> 1, n2 |-> 1, kr |-> RInt(0), f_max |-> Rat(1, 50), xf |-> Rat(1, 2),
       t_max |-> Rat(1, 10)],
      [n1 |-> 1, n2 |-> 1, kr |-> Rat(1, 2), f_max |-> Rat(1, 50), xf |-> RInt(0),
       t_max |-> Rat(1, 10)],
      [n1 |-> 1, n2 |-> 1, kr |-> RInt(0), f_max |-> RInt(0), xf |-> RInt(0),
       t_max |-> Rat(1, 5)],
      \* a negative thickness shape factor
      [n1 |-> 1, n2 |-> 1, kr |-> RInt(-1), f_max |-> Rat(1, 50), xf |-> Rat(1, 2),
       t_max |-> Rat(1, 10)] }

AirfoilNames == {"airfoil"}
\* directories that exist and in which no file can be created: exists() is True
\* and open() or save() raises PermissionError
UnwritablePaths == {"locked"}
WritePaths == {"triSurface"} \cup UnwritablePaths
\* write_path of a call that passes none
DefaultWritePath == "."

Lower(output) == IF output = "DAT" THEN "dat" ELSE output

\* the attributes __init__ sets from its arguments
GeneratorAttributes(args) ==
    [write_dat_file |-> (Lower(args.output) = "dat"),
     x_start |-> args.x_start, x_stop |-> args.x_stop,
     n_points |-> args.n_points, cos_distributed |-> args.cosine_distributed]

NoGenerator ==
    [write_dat_file |-> FALSE, x_start |-> RInt(0), x_stop |-> RInt(0),
     n_points |-> 0, cos_distributed |-> FALSE]

NoParams ==
    [name |-> "", write_path |-> "", write_file |-> FALSE, n1 |-> 0, n2 |-> 0,
     kr |-> RInt(0), f_max |-> RInt(0), xf_max |-> RInt(0), t_max |-> RInt(0)]

\* pt.linspace(start, stop, n), n >= 2
Linspace(start, stop, n) ==
    Tensor([i \in 1..n |->
               FAdd(start, FDiv(FMul(RInt(i - 1), FSub(stop, start)), RInt(n - 1)))])

\* _compute_cosine_distribution
CosineDistribution(x, cfg) ==
    Tensor([i \in 1..Len(x) |->
               FMul(FDiv(FSub(cfg.x_stop, cfg.x_start), RInt(2)),
                    FSub(RInt(1), CosPi(x[i])))])

\* _scale_x
ScaleX(x) ==
    Tensor([i \in 1..Len(x) |->
               FDiv(FSub(x[i], TensorMin(x)), FSub(TensorMax(x), TensorMin(x)))])

\* _reset_coordinates: the new self._x
ResetCoordinates(cfg) ==
    LET lin == Linspace(cfg.x_start, cfg.x_stop, cfg.n_points)
    IN  ScaleX(IF cfg.cos_distributed THEN CosineDistribution(lin, cfg) ELSE lin)

\* _compute_thickness_distribution
ThicknessDistribution(x, n1, n2, kr) ==
    Tensor([i \in 1..Len(x) |->
               FMul(FMul(FPow(x[i], n1), FPow(FSub(RInt(1), x[i]), n2)),
                    FAdd(FDiv(x[i], kr), FMul(kr, FSub(RInt(1), x[i]))))])

\* _compute_camber_line: the scalars a and b are Python numbers, and 1 / pow(0, 2)
\* raises ZeroDivisionError
CamberRaises(xf) == RIsZero(xf)
CamberLine(x, f_max, xf) ==
    LET a == RMul(RDiv(RInt(1), RMul(xf, xf)), f_max)
        b == RDiv(RSub(RInt(1), RMul(RInt(2), xf)), RMul(xf, xf))
    IN  Tensor([i \in 1..Len(x) |->
                   FMul(a, FDiv(FMul(x[i], FSub(RInt(1), x[i])),
                                FAdd(RInt(1), FMul(b, x[i]))))])

\* _reverse_min_max_scaling
ReverseMinMaxScaling(data, cfg) ==
    Tensor([i \in 1..Len(data) |->
               FAdd(FMul(data[i], FSub(cfg.x_stop, cfg.x_start)), cfg.x_start)])

\* generate_airfoil, lines 94-107: the outline [x, y] from the grid x
Outline(x, thickness, camber, t_max, cfg) ==
    LET sf   == FDiv(FMul(Rat(1, 2), t_max), PyMax(thickness))
        y_ss == Tensor([i \in 1..Len(x) |-> FAdd(FMul(thickness[i], sf), camber[i])])
        y_ps == Tensor([i \in 1..Len(x) |-> FAdd(FMul(FNeg(thickness[i]), sf), camber[i])])
        xo   == SubSeq(Reversed(x), 1, Len(x) - 1) \o x
        yo   == SubSeq(Reversed(y_ss), 1, Len(x) - 1) \o y_ps
    IN  [x |-> ReverseMinMaxScaling(xo, cfg), y |-> ReverseMinMaxScaling(yo, cfg)]

\* "{:.8f}".format of a tensor element: nan and inf are written as such
FormatCoordinate(v) == IF IsFinite(v) THEN FormatFixed(v, 8) ELSE v

FilePath(write_path, name, ext) == <<write_path, name, ext>>
AirfoilFiles ==
    { FilePath(w, n, e) : w \in WritePaths, n \in AirfoilNames, e \in {"dat", "stl"} }
NoAirfoilFile == [exists |-> FALSE, name |-> "", points |-> <<>>]

\* DatFile without the line that holds the airfoil name
DatFileUnnamed(name, x, y) ==
    [exists |-> TRUE, name |-> "",
     points |-> [i \in 1..Len(x) |-> <<FormatCoordinate(x[i]), FormatCoordinate(y[i])>>]]

\* _write_data_to_dat_file: the name line and one "x  y" line per point
DatFile(name, x, y) ==
    [exists |-> TRUE, name |-> name,
     points |-> [i \in 1..Len(x) |-> <<FormatCoordinate(x[i]), FormatCoordinate(y[i])>>]]

\* _write_data_to_stl_file: the outline extruded and capped; the file is taken to
\* hold the points of the outline
StlFile(name, x, y) ==
    [exists |-> TRUE, name |-> name, points |-> [i \in 1..Len(x) |-> <<x[i], y[i]>>]]

GenNoResult == [kind |-> "none", error |-> "", x |-> <<>>, y |-> <<>>]
GenReturnedNone == [kind |-> "returned", error |-> "", x |-> <<>>, y |-> <<>>]
GenReturned(x, y) == [kind |-> "returned", error |-> "", x |-> x, y |-> y]
GenRaised(e) == [kind |-> "raised", error |-> e, x |-> <<>>, y |-> <<>>]
NoOutline == [x |-> <<>>, y |-> <<>>]

\* AirfoilGenerator.__init__
AirfoilGeneratorInit(args) ==
    /\ ~gen_constructed
    /\ gen_constructed' = TRUE
    /\ gen_cfg' = GeneratorAttributes(args)
    /\ gen_params' = NoParams
    /\ gen_x' = ResetCoordinates(GeneratorAttributes(args))
    /\ gen_y' = <<>>
    /\ gen_thickness' = <<>>
    /\ gen_camber' = <<>>
    /\ UNCHANGED <<fs_dirs, fs_files, gen_result, gen_grid, gen_outline>>
    /\ UNCHANGED dl_vars
    /\ UNCHANGED inst_vars
    /\ UNCHANGED ic_vars
    /\ UNCHANGED run_vars

\* AirfoilGenerator.generate_airfoil(n1, n2, kr, f_max, xf, t_max, airfoil_name,
\* write_path, write_file)
generate_airfoil(p, airfoil_name, write_path, write_file) ==
    /\ gen_constructed
    /\ Len(gen_x) <= MaxGridLen
    /\ gen_grid' = gen_x
    /\ gen_params' = [name |-> airfoil_name, write_path |-> write_path,
                      write_file |-> write_file, n1 |-> p.n1, n2 |-> p.n2, kr |-> p.kr,
                      f_max |-> p.f_max, xf_max |-> p.xf, t_max |-> p.t_max]
    /\ \E thickness \in {ThicknessDistribution(gen_x, p.n1, p.n2, p.kr)} :
        /\ gen_thickness' = thickness
        /\ IF CamberRaises(p.xf)
           THEN /\ gen_result' = GenRaised("ZeroDivisionError")
                /\ gen_outline' = NoOutline
                /\ UNCHANGED <<gen_x, gen_y, gen_camber, fs_dirs, fs_files>>
           ELSE \E camber \in {CamberLine(gen_x, p.f_max, p.xf)} :
                \E o \in {Outline(gen_x, thickness, camber, p.t_max, gen_cfg)} :
                    /\ gen_camber' = camber
                    /\ gen_outline' = o
                    /\ IF ~write_file
                       THEN /\ gen_x' = ResetCoordinates(gen_cfg)
                            /\ gen_y' = <<>>
                            /\ gen_result' = GenReturned(o.x, o.y)
                            /\ UNCHANGED <<fs_dirs, fs_files>>
                       ELSE IF write_path \in UnwritablePaths
                       THEN \* the writer raises and line 125 is not reached
                            /\ gen_x' = o.x
                            /\ gen_y' = o.y
                            /\ gen_result' = GenRaised("PermissionError")
                            /\ UNCHANGED <<fs_dirs, fs_files>>
                       ELSE /\ gen_x' = ResetCoordinates(gen_cfg)
                            /\ gen_y' = <<>>
                            /\ fs_dirs' = fs_dirs \cup {write_path}
                            /\ fs_files' =
                                 IF gen_cfg.write_dat_file
                                 THEN [fs_files EXCEPT
                                         ![FilePath(write_path, airfoil_name, "dat")] =
                                            DatFile(airfoil_name, o.x, o.y)]
                                 ELSE [fs_files EXCEPT
                                         ![FilePath(write_path, airfoil_name, "stl")] =
                                            StlFile(airfoil_name, o.x, o.y)]
                            /\ gen_result' = GenReturnedNone
    /\ UNCHANGED <<gen_constructed, gen_cfg>>
    /\ UNCHANGED dl_vars
    /\ UNCHANGED inst_vars
    /\ UNCHANGED ic_vars
    /\ UNCHANGED run_vars

InitGenerator ==
    /\ gen_constructed = FALSE
    /\ gen_cfg = NoGenerator
    /\ gen_params = NoParams
    /\ gen_x = <<>>
    /\ gen_y = <<>>
    /\ gen_thickness = <<>>
    /\ gen_camber = <<>>
    /\ fs_dirs = UnwritablePaths
    /\ fs_files = [f \in AirfoilFiles |-> NoAirfoilFile]
    /\ gen_result = GenNoResult
    /\ gen_grid = <<>>
    /\ gen_outline = NoOutline

NextGenerator ==
    \/ \E args \in GeneratorArgs : AirfoilGeneratorInit(args)
    \/ \E p \in ShapeParameters, n \in AirfoilNames, w \in WritePaths :
          generate_airfoil(p, n, w, TRUE)
    \/ \E p \in ShapeParameters, n \in AirfoilNames :
          generate_airfoil(p, n, DefaultWritePath, FALSE)

----------------------------------------------------------------------------
(* Two instances of each class in one process *)

Instances == {1, 2}

\* a DataLoader object before __init__ has run
NoLoaderObject ==
    [constructed |-> FALSE, cfg |-> NoLoader, coefficients |-> EmptyDict, alpha |-> <<>>,
     objective |-> RInt(0), trial_no |-> 0, result |-> NoResult]

\* DataLoader.__init__: every attribute is assigned on self
NewLoader(args) ==
    [constructed |-> TRUE, cfg |-> LoaderAttributes(args), coefficients |-> EmptyDict,
     alpha |-> <<>>, objective |-> RInt(0), trial_no |-> 0, result |-> NoResult]

\* LoaderSelf with the angle list held once for the class instead of per object
LoaderSelfSharedAlpha(objects, i) == [objects[i] EXCEPT !.alpha = objects[1].alpha]

\* the attributes a DataLoader method called on object i works on: those __init__
\* assigned on that object (no class attribute, no module variable)
LoaderSelf(objects, i) == objects[i]

\* evaluate_trial as a function of the object it is called on and of the polar
\* file in the object's simulation_path
EvaluateTrial(self, file, trial_no, dir) ==
    LET alpha1 == LoadedAlpha(self.alpha, dir)
        coeff1 == LoadedCoefficients(self.coefficients, dir)
        scored == ComputeObjective(alpha1, coeff1, self.cfg)
        write  == WritePolarFile(trial_no, alpha1, coeff1, self.cfg)
    IN  IF scored.kind = "raised"
        THEN [self |-> [self EXCEPT !.trial_no = trial_no, !.alpha = alpha1,
                                    !.coefficients = coeff1, !.result = scored],
              file |-> file]
        ELSE IF write.raised
        THEN [self |-> [self EXCEPT !.trial_no = trial_no, !.alpha = alpha1,
                                    !.coefficients = coeff1,
                                    !.objective = scored.value,
                                    !.result = Raised("TypeError")],
              file |-> write.file]
        ELSE [self |-> [self EXCEPT !.trial_no = trial_no, !.alpha = <<>>,
                                    !.coefficients = EmptyDict,
                                    !.objective = RInt(0),
                                    !.result = Returned(scored.value)],
              file |-> write.file]

\* an AirfoilGenerator object before __init__ has run
NoGeneratorObject ==
    [constructed |-> FALSE, cfg |-> NoGenerator, params |-> NoParams, x |-> <<>>,
     y |-> <<>>, thickness |-> <<>>, camber |-> <<>>, result |-> GenNoResult]

\* AirfoilGenerator.__init__: every attribute is assigned on self
NewGenerator(args) ==
    [constructed |-> TRUE, cfg |-> GeneratorAttributes(args), params |-> NoParams,
     x |-> ResetCoordinates(GeneratorAttributes(args)), y |-> <<>>,
     thickness |-> <<>>, camber |-> <<>>, result |-> GenNoResult]

\* the attributes an AirfoilGenerator method called on object i works on
GeneratorSelf(objects, i) == objects[i]

\* the write directory of a generator: absent, or present with the airfoil file
NoDirectory == [exists |-> FALSE, file |-> NoAirfoilFile]
OwnDirectory(i) == IF i = 1 THEN "run_1" ELSE "run_2"

\* generate_airfoil as a function of the object it is called on and of the
\* directory write_path
GenerateAirfoil(self, dir, p, airfoil_name, write_path, write_file) ==
    LET params == [name |-> airfoil_name, write_path |-> write_path,
                   write_file |-> write_file, n1 |-> p.n1, n2 |-> p.n2, kr |-> p.kr,
                   f_max |-> p.f_max, xf_max |-> p.xf, t_max |-> p.t_max]
        thickness == ThicknessDistribution(self.x, p.n1, p.n2, p.kr)
        camber == CamberLine(self.x, p.f_max, p.xf)
        o == Outline(self.x, thickness, camber, p.t_max, self.cfg)
        set == [self EXCEPT !.params = params, !.thickness = thickness]
    IN  IF CamberRaises(p.xf)
        THEN [self |-> [set EXCEPT !.result = GenRaised("ZeroDivisionError")],
              dir |-> dir]
        ELSE IF ~write_file
        THEN [self |-> [set EXCEPT !.camber = camber, !.x = ResetCoordinates(self.cfg),
                                   !.y = <<>>, !.result = GenReturned(o.x, o.y)],
              dir |-> dir]
        ELSE IF write_path \in UnwritablePaths
        THEN [self |-> [set EXCEPT !.camber = camber, !.x = o.x, !.y = o.y,
                                   !.result = GenRaised("PermissionError")],
              dir |-> dir]
        ELSE [self |-> [set EXCEPT !.camber = camber, !.x = ResetCoordinates(self.cfg),
                                   !.y = <<>>, !.result = GenReturnedNone],
              dir |-> [exists |-> TRUE,
                       file |-> IF self.cfg.write_dat_file
                                THEN DatFile(airfoil_name, o.x, o.y)
                                ELSE StlFile(airfoil_name, o.x, o.y)]]

\* arguments used with the two instances
InstanceLoaderArgs == { a \in LoaderArgs : a.write_precision = 1 }
InstanceRunDirectories ==
    { d \in RunDirectories :
        /\ DOMAIN d = {"0"}
        /\ d["0"] \in {NoCoefficientFile, [exists |-> TRUE, rows |-> <<RowB, RowA>>]} }
InstanceGeneratorArgs == { a \in GeneratorArgs : a.output = "stl" }
InstanceShapeParameters == { p \in ShapeParameters : p.n2 = 2 }

\* DataLoader(...) bound to instance i
NewLoaderInstance(i, args) ==
    /\ ~loaders[i].constructed
    /\ loaders' = [loaders EXCEPT ![i] = NewLoader(args)]
    /\ alone' = [alone EXCEPT !.loaders[i] = NewLoader(args)]
    /\ UNCHANGED <<loader_dirs, generators, generator_dirs>>
    /\ UNCHANGED <<dl_vars, gen_vars, ic_vars, run_vars>>

\* evaluate_trial(trial_no, run_directory) called on instance i
EvaluateTrialOn(i, trial_no, dir) ==
    /\ loaders[i].constructed
    /\ Len(loaders[i].alpha) + Cardinality(DOMAIN dir) <= MaxAlphaLen
    /\ \E r \in {EvaluateTrial(LoaderSelf(loaders, i), loader_dirs[i], trial_no, dir)},
          ra \in {EvaluateTrial(alone.loaders[i], alone.loader_dirs[i], trial_no, dir)} :
        /\ loaders' = [loaders EXCEPT ![i] = r.self]
        /\ loader_dirs' = [loader_dirs EXCEPT ![i] = r.file]
        /\ alone' = [alone EXCEPT !.loaders[i] = ra.self, !.loader_dirs[i] = ra.file]
    /\ UNCHANGED <<generators, generator_dirs>>
    /\ UNCHANGED <<dl_vars, gen_vars, ic_vars, run_vars>>

\* AirfoilGenerator(...) bound to instance i
NewGeneratorInstance(i, args) ==
    /\ ~generators[i].constructed
    /\ generators' = [generators EXCEPT ![i] = NewGenerator(args)]
    /\ alone' = [alone EXCEPT !.generators[i] = NewGenerator(args)]
    /\ UNCHANGED <<loaders, loader_dirs, generator_dirs>>
    /\ UNCHANGED <<dl_vars, gen_vars, ic_vars, run_vars>>

\* generate_airfoil called on instance i, writing into the directory of
\* instance i or into an unwritable one
GenerateAirfoilOn(i, p, airfoil_name, write_path, write_file) ==
    /\ generators[i].constructed
    /\ Len(generators[i].x) <= MaxGridLen
    /\ \E r \in {GenerateAirfoil(GeneratorSelf(generators, i), generator_dirs[i], p,
                                 airfoil_name, write_path, write_file)},
          ra \in {GenerateAirfoil(alone.generators[i], alone.generator_dirs[i], p,
                                  airfoil_name, write_path, write_file)} :
        /\ generators' = [generators EXCEPT ![i] = r.self]
        /\ generator_dirs' = [generator_dirs EXCEPT ![i] = r.dir]
        /\ alone' = [alone EXCEPT !.generators[i] = ra.self,
                                  !.generator_dirs[i] = ra.dir]
    /\ UNCHANGED <<loaders, loader_dirs>>
    /\ UNCHANGED <<dl_vars, gen_vars, ic_vars, run_vars>>

InitInstances ==
    /\ loaders = [i \in Instances |-> NoLoaderObject]
    /\ loader_dirs = [i \in Instances |-> NoFile]
    /\ generators = [i \in Instances |-> NoGeneratorObject]
    /\ generator_dirs = [i \in Instances |-> NoDirectory]
    /\ alone = [loaders |-> [i \in Instances |-> NoLoaderObject],
                loader_dirs |-> [i \in Instances |-> NoFile],
                generators |-> [i \in Instances |-> NoGeneratorObject],
                generator_dirs |-> [i \in Instances |-> NoDirectory]]

NextInstances ==
    \/ \E i \in Instances, args \in InstanceLoaderArgs : NewLoaderInstance(i, args)
    \/ \E i \in Instances, t \in Trials, dir \in InstanceRunDirectories :
          EvaluateTrialOn(i, t, dir)
    \/ \E i \in Instances, args \in InstanceGeneratorArgs : NewGeneratorInstance(i, args)
    \/ \E i \in Instances, p \in InstanceShapeParameters, n \in AirfoilNames :
          \E w \in {OwnDirectory(i)} \cup UnwritablePaths :
              GenerateAirfoilOn(i, p, n, w, TRUE)

----------------------------------------------------------------------------
(* ComputeInitialConditions *)

\* None
None == <<>>

\* a + b over the least common denominator
Sum(a, b) ==
    LET l == (a[2] * b[2]) \div GCD(a[2], b[2])
    IN  Rat(a[1] * (l \div a[2]) + b[1] * (l \div b[2]), l)

\* base ** exponent for a float exponent that is not an integer: the value is
\* kept as the power it is; a negative base gives a complex number
Power(base, exponent) ==
    [base |-> base, exponent |-> exponent,
     type |-> IF base[1] < 0 THEN "complex" ELSE "float"]

\* sqrt(x) of the math module, x >= 0
Sqrt(x) == Power(x, Rat(1, 2))

\* a float whose value is the rational r
Float(r) == [value |-> r]

\* num / den for a den that is a power
Quotient(num, den) == [num |-> num, den |-> den]

\* arguments ComputeInitialConditions is constructed with (gamma, R, T, rho at
\* their defaults; compute_IC only selects a log message)
TurbulenceLevels ==
    {RInt(0), Rat(1, 200), Rat(1, 100), Rat(13, 1000), Rat(1, 50), Rat(1, 20), Rat(1, 10)}

ConditionArgs ==
    [tu : TurbulenceLevels,
     reynolds_number : {RInt(100000), RInt(500000)},
     c : {Rat(3, 20), RInt(1)},
     ma_number : {None, Rat(3, 10)},
     u_inf : {None, RInt(10), RInt(50)}]

\* the attributes __init__ assigns before it computes anything (lines 38-54)
ConditionAttributes(args) ==
    [rho |-> RInt(1), T |-> RInt(273), R |-> Rat(287053, 1000), tu |-> args.tu,
     c |-> args.c, gamma |-> Rat(14, 10), c_mu |-> Rat(9, 100),
     u_inf |-> args.u_inf, ma_number |-> args.ma_number,
     reynolds_number |-> args.reynolds_number]

\* the attributes of self with the attribute name set to value
SetAttr(self, name, value) ==
    [a \in (DOMAIN self) \cup {name} |-> IF a = name THEN value ELSE self[a]]

\* gamma * R * T
SoundSpeedSquared(self) == RMul(RMul(self.gamma, self.R), self.T)

\* _compute_ma_number: self._ma = self._u_inf / sqrt(gamma * R * T)
compute_ma_number(self) ==
    IF self.u_inf = None
    THEN [raised |-> "TypeError", self |-> self]
    ELSE [raised |-> "",
          self |-> SetAttr(self, "ma", Quotient(self.u_inf, Sqrt(SoundSpeedSquared(self))))]

\* _compute_inflow_velocity: the velocity is returned, no attribute is set
compute_inflow_velocity(self) == [raised |-> "", self |-> self]

\* _compute_k: self._k = 1.5 * (self._u_inf * self._tu)**2
compute_k(self) ==
    IF self.u_inf = None
    THEN [raised |-> "TypeError", self |-> self]
    ELSE [raised |-> "",
          self |-> SetAttr(self, "k",
                       RMul(Rat(3, 2), RMul(RMul(self.u_inf, self.tu),
                                            RMul(self.u_inf, self.tu))))]

\* _compute_omega: self._omega = self._k**0.5 / (self._c * self._c_mu**0.25)
compute_omega(self) ==
    [raised |-> "",
     self |-> SetAttr(self, "omega",
                  [num |-> Sqrt(self.k), c |-> self.c,
                   den |-> Power(self.c_mu, Rat(1, 4))])]

\* _compute_nu: self._nu = self._rho * self._c * self._u_inf / self._reynolds_number
compute_nu(self) ==
    [raised |-> "",
     self |-> SetAttr(self, "nu",
                  RDiv(RMul(RMul(self.rho, self.c), self.u_inf), self.reynolds_number))]

\* 1173.51 - 589.428 * Tu + 0.2196 / Tu^2
LinearCorrelation(Tu) ==
    Float(Sum(RSub(Rat(117351, 100), RMul(Rat(589428, 1000), Tu)),
              RDiv(Rat(2196, 10000), RMul(Tu, Tu))))

\* 331.5 / (Tu - 0.5658)^0.671
PowerCorrelation(Tu) ==
    Quotient(Rat(3315, 10), Power(RSub(Tu, Rat(5658, 10000)), Rat(671, 1000)))

\* _compute_Re_theta (lines 108-111)
compute_Re_theta(self) ==
    [raised |-> "",
     self |-> SetAttr(self, "re_theta",
                  IF ~RLess(self.tu, Rat(13, 1000))
                  THEN LinearCorrelation(RMul(self.tu, RInt(100)))
                  ELSE PowerCorrelation(RMul(self.tu, RInt(100))))]

\* the steps of __init__ (lines 56-64) applied in order until one raises
RECURSIVE RunSteps(_, _)
RunSteps(steps, state) ==
    IF steps = <<>> \/ state.raised # "" THEN state
    ELSE RunSteps(Tail(steps),
                  CASE Head(steps) = "ma"       -> compute_ma_number(state.self)
                    [] Head(steps) = "u_inf"    -> compute_inflow_velocity(state.self)
                    [] Head(steps) = "k"        -> compute_k(state.self)
                    [] Head(steps) = "omega"    -> compute_omega(state.self)
                    [] Head(steps) = "nu"       -> compute_nu(state.self)
                    [] Head(steps) = "Re_theta" -> compute_Re_theta(state.self))

\* the calls __init__ makes for its arguments
InitSteps(args) ==
    (IF args.ma_number = None THEN <<"ma">>
     ELSE IF args.u_inf = None THEN <<"u_inf">> ELSE <<>>)
        \o <<"k", "omega", "nu", "Re_theta">>

\* no instance
NoConditions == [a \in {} |-> None]

NoConditionArgs ==
    [tu |-> RInt(0), reynolds_number |-> RInt(0), c |-> RInt(0),
     ma_number |-> None, u_inf |-> None]

\* ComputeInitialConditions.__init__: the instance exists when no step raised
ComputeInitialConditionsInit(args) ==
    /\ ic_result = "none"
    /\ \E done \in {RunSteps(InitSteps(args),
                             [raised |-> "", self |-> ConditionAttributes(args)])} :
        /\ ic_args' = args
        /\ ic_self' = IF done.raised = "" THEN done.self ELSE NoConditions
        /\ ic_result' = IF done.raised = "" THEN "constructed" ELSE done.raised
    /\ UNCHANGED <<dl_vars, gen_vars, inst_vars, run_vars>>

InitConditions ==
    /\ ic_args = NoConditionArgs
    /\ ic_self = NoConditions
    /\ ic_result = "none"

NextConditions == \E args \in ConditionArgs : ComputeInitialConditionsInit(args)

----------------------------------------------------------------------------
(* Text of the case files: a line is a sequence of pieces, each a word, one   *)
(* space or a formatted number                                               *)

\* the text s
W(s) == [word |-> s]

\* one space
Sp == W(" ")

\* n spaces
Spaces(n) == [i \in 1..n |-> Sp]

\* "{:.<p>f}".format(x) for a float x whose value is a rational
Fixed(x, p) == [fixed |-> FormatFixed(x, p), decimals |-> p]

\* "{:.<p>f}".format(x) for a float x kept as a power
FixedPower(x, p) == [formatted |-> x, decimals |-> p]

\* "{:.8e}".format(x)
Scientific(x) == [scientific |-> x, digits |-> 8]

\* str(n) and "{:.0f}".format(n) of an integer n
Str(n) == [fixed |-> RInt(n), decimals |-> 0]

\* line.strip()
RECURSIVE LStrip(_)
LStrip(line) ==
    IF line # <<>> /\ Head(line) = Sp THEN LStrip(Tail(line)) ELSE line

RECURSIVE RStrip(_)
RStrip(line) ==
    IF line # <<>> /\ line[Len(line)] = Sp
    THEN RStrip(SubSeq(line, 1, Len(line) - 1)) ELSE line

Strip(line) == RStrip(LStrip(line))

\* line.startswith(key)
StartsWith(line, key) ==
    Len(key) <= Len(line) /\ SubSeq(line, 1, Len(key)) = key

\* line.replace(old, new): every occurrence, from the left
RECURSIVE Replace(_, _, _)
Replace(line, old, new) ==
    IF Len(line) < Len(old) THEN line
    ELSE IF SubSeq(line, 1, Len(old)) = old
         THEN new \o Replace(SubSeq(line, Len(old) + 1, Len(line)), old, new)
         ELSE <<Head(line)>> \o Replace(Tail(line), old, new)

\* _replace_line on the lines of one file
replace_line(lines, key, old, new) ==
    [i \in DOMAIN lines |->
        IF ~StartsWith(Strip(lines[i]), key) THEN lines[i]
        ELSE Replace(lines[i], old, new)]

----------------------------------------------------------------------------
(* ModifySimulationSetup *)

\* a line "<key><spaces><value>;" indented by indent spaces
Entry(indent, key, gap, value) ==
    Spaces(indent) \o <<W(key)>> \o Spaces(gap) \o value \o <<W(";")>>

\* the first line of every case file
FoamFile == <<W("FoamFile")>>

\* the files of the base case as the patterns of the setters expect them; the
\* entries of system/FO_forces are indented by indent spaces
BaseSimulation(indent) ==
    [f \in {"0.orig/k", "0.orig/omega", "0.orig/gammaInt", "0.orig/ReThetat",
            "constant/transportProperties", "0.orig/U", "system/FO_forces",
            "Allrun", "system/controlDict"} |->
        CASE f = "0.orig/k" -> <<FoamFile, Entry(0, "kInlet", 10, <<W("8.557")>>)>>
          [] f = "0.orig/omega" -> <<FoamFile, Entry(0, "omegaInlet", 6, <<W("35.605")>>)>>
          [] f = "0.orig/gammaInt" ->
                <<FoamFile, Entry(0, "internalField", 3, <<W("uniform"), Sp, W("0.01")>>)>>
          [] f = "0.orig/ReThetat" ->
                <<FoamFile, Entry(0, "internalField", 3, <<W("uniform"), Sp, W("1000")>>)>>
          [] f = "constant/transportProperties" ->
                <<FoamFile, Entry(0, "nu", 14, <<W("1e-05")>>)>>
          [] f = "0.orig/U" ->
                <<FoamFile, Entry(0, "Uinlet", 10, <<W("20.0")>>),
                  Entry(0, "alpha", 11, <<Fixed(RInt(0), 6)>>)>>
          [] f = "system/FO_forces" ->
                <<FoamFile, Entry(indent, "rhoInf", 6, <<W("1")>>),
                  Entry(indent, "Uinlet", 10, <<W("20.0")>>),
                  Entry(indent, "alpha", 11, <<Fixed(RInt(0), 6)>>)>>
          [] f = "Allrun" -> <<<<W("#!/bin/bash")>>, <<W("alpha"), W("="), Fixed(RInt(0), 6)>>>>
          [] f = "system/controlDict" -> <<FoamFile, Entry(0, "endTime", 9, <<Str(2000)>>)>>]

\* indentations of the entries of system/FO_forces in the base case
Indents == {0, 4}

\* a path argument: a list of paths or a single string
PathList(l) == [list |-> l]
PathString(str) == [str |-> str]
PathArgs == {PathList(<<"trial_0">>), PathList(<<"trial_0", "trial_1">>),
             PathString("validation_run")}

\* x if isinstance(x, list) else [x]
AsList(arg) == IF "list" \in DOMAIN arg THEN arg.list ELSE <<arg.str>>

\* create_run_directories: copytree(base_path, d) for every directory
CopyBase(files, directories, base) ==
    [d \in (DOMAIN files) \cup {AsList(directories)[i] : i \in DOMAIN AsList(directories)} |->
        IF \E i \in DOMAIN AsList(directories) : AsList(directories)[i] = d
        THEN base ELSE files[d]]

\* arguments ModifySimulationSetup is constructed with
SetupArgs ==
    [tu : {Rat(1, 100)}, reynolds_number : {RInt(300000)}, c : {Rat(3, 20)},
     u_inf : {None, RInt(20), RInt(25)}, ma_number : {Rat(1, 10)},
     T_inf : {RInt(273)}, rho_inf : {RInt(1), RInt(2)}]

\* the arguments super().__init__ is called with (line 40)
SuperArgs(args) ==
    [tu |-> args.tu, reynolds_number |-> args.reynolds_number, c |-> args.c,
     ma_number |-> args.ma_number, u_inf |-> args.u_inf]

\* ComputeInitialConditions.__init__ with T = T_inf and rho = rho_inf
SuperInit(args) ==
    RunSteps(InitSteps(SuperArgs(args)),
             [raised |-> "",
              self |-> [ConditionAttributes(SuperArgs(args))
                            EXCEPT !.rho = args.rho_inf, !.T = args.T_inf]])

\* ModifySimulationSetup.__init__ after super().__init__ (lines 42-45)
SetupAttributes(self, simulation_path) ==
    SetAttr(SetAttr(SetAttr(SetAttr(self, "path", AsList(simulation_path)),
                            "alpha", RInt(0)), "alpha_old", RInt(0)), "end_time", 2000)

\* angles of attack and end times the setup is given
Alphas == {RInt(-2), RInt(0), RInt(5)}
EndTimes == {500, 2000, 3500}

\* one _replace_line call
Edit(file, key, old, new) == [file |-> file, key |-> key, old |-> old, new |-> new]

RECURSIVE Flatten(_)
Flatten(seqs) == IF seqs = <<>> THEN <<>> ELSE Head(seqs) \o Flatten(Tail(seqs))

\* for p in self._path: the edits, in order, each on the file of p
ForPaths(path, edits) ==
    Flatten([i \in DOMAIN path |->
                [j \in DOMAIN edits |-> [dir |-> path[i], edit |-> edits[j]]]])

\* the _replace_line calls of steps made in order until a file is missing
RECURSIVE ApplyEdits(_, _)
ApplyEdits(files, steps) ==
    IF steps = <<>> THEN [raised |-> "", files |-> files]
    ELSE IF Head(steps).dir \notin DOMAIN files
         THEN [raised |-> "FileNotFoundError", files |-> files]
         ELSE ApplyEdits(
                [files EXCEPT ![Head(steps).dir][Head(steps).edit.file] =
                    replace_line(@, Head(steps).edit.key, Head(steps).edit.old,
                                 Head(steps).edit.new)],
                Tail(steps))

set_k(self) ==
    ForPaths(self.path,
        <<Edit("0.orig/k", <<W("kInlet")>>, Entry(0, "kInlet", 10, <<W("8.557")>>),
               Entry(0, "kInlet", 10, <<Fixed(self.k, 6)>>))>>)

set_omega(self) ==
    ForPaths(self.path,
        <<Edit("0.orig/omega", <<W("omegaInlet")>>,
               Entry(0, "omegaInlet", 6, <<W("35.605")>>),
               Entry(0, "omegaInlet", 6, <<FixedPower(self.omega, 6)>>))>>)

set_inflow_velocity(self) ==
    ForPaths(self.path,
        <<Edit("0.orig/U", <<W("Uinlet")>>, Entry(0, "Uinlet", 10, <<W("20.0")>>),
               Entry(0, "Uinlet", 10, <<Fixed(self.u_inf, 6)>>)),
          Edit("system/FO_forces", Spaces(4) \o <<W("Uinlet")>>,
               Entry(0, "Uinlet", 10, <<W("20.0")>>),
               Entry(4, "Uinlet", 10, <<Fixed(self.u_inf, 6)>>))>>)

set_nu(self) ==
    ForPaths(self.path,
        <<Edit("constant/transportProperties", <<W("nu")>>,
               Entry(0, "nu", 14, <<W("1e-05")>>),
               Entry(0, "nu", 14, <<Scientific(self.nu)>>))>>)

set_free_stream_density(self) ==
    ForPaths(self.path,
        <<Edit("system/FO_forces", Spaces(4) \o <<W("rhoInf")>>,
               Entry(3, "rhoInf", 6, <<W("1")>>),
               Entry(3, "rhoInf", 6, <<Fixed(self.rho, 6)>>))>>)

set_angle_of_attack(self) ==
    ForPaths(self.path,
        <<Edit("0.orig/U", <<W("alpha")>>,
               Entry(0, "alpha", 11, <<Fixed(self.alpha_old, 6)>>),
               Entry(0, "alpha", 11, <<Fixed(self.alpha, 6)>>)),
          Edit("system/FO_forces", <<W("alpha")>>,
               Entry(4, "alpha", 11, <<Fixed(self.alpha_old, 6)>>),
               Entry(4, "alpha", 11, <<Fixed(self.alpha, 6)>>)),
          Edit("Allrun", <<W("alpha")>>,
               <<W("alpha"), W("="), Fixed(self.alpha_old, 6)>>,
               <<W("alpha"), W("="), Fixed(self.alpha, 6)>>)>>)

set_tu(self) ==
    ForPaths(self.path,
        <<Edit("0.orig/gammaInt", <<W("internalField")>>,
               Entry(0, "internalField", 3, <<W("uniform"), Sp, W("0.01")>>),
               Entry(0, "internalField", 3, <<W("uniform"), Sp, Fixed(self.tu, 6)>>))>>)

set_Re_theta(self) ==
    ForPaths(self.path,
        <<Edit("0.orig/ReThetat", <<W("internalField")>>,
               Entry(0, "internalField", 3, <<W("uniform"), Sp, W("1000")>>),
               Entry(0, "internalField", 3,
                     <<W("uniform"), Sp, FixedPower(self.re_theta, 6)>>))>>)

\* set_inflow_conditions (lines 59-66)
SetInflowConditions(self, files) ==
    ApplyEdits(files,
        set_k(self) \o set_omega(self) \o set_tu(self) \o set_Re_theta(self)
            \o set_nu(self) \o set_inflow_velocity(self)
            \o set_free_stream_density(self))

\* set_endTime: the controlDict of every path, then self._end_time
SetEndTime(self, files, end_time) ==
    LET done == ApplyEdits(files,
                    ForPaths(self.path,
                        <<Edit("system/controlDict", <<W("endTime")>>,
                               Entry(0, "endTime", 9, <<Str(self.end_time)>>),
                               Entry(0, "endTime", 9, <<Str(end_time)>>))>>))
    IN  [raised |-> done.raised, files |-> done.files,
         self |-> IF done.raised = "" THEN [self EXCEPT !.end_time = end_time] ELSE self]

\* the alpha setter (lines 239-241)
SetAlpha(self, files, alpha) ==
    LET new == [self EXCEPT !.alpha_old = self.alpha, !.alpha = alpha]
        done == ApplyEdits(files, set_angle_of_attack(new))
    IN  [raised |-> done.raised, files |-> done.files, self |-> new]

\* initialize_new_aoa: glob finds the processor*/*00 directories and the log.*
\* files a solver run leaves; the case directories hold none, so the loop and
\* the removal have nothing to act on before set_endTime(500)
InitializeNewAoa(self, files) == SetEndTime(self, files, 500)

\* no instance
NoSimulation == [a \in {} |-> None]

\* no case directory
NoDirectories == [d \in {} |-> BaseSimulation(0)]

\* how a call ended
CallEnded(call, raised) == [call |-> call, raised |-> raised]

create_run_directories(directories, indent) ==
    /\ sim_files = NoDirectories
    /\ sim_files' = CopyBase(sim_files, directories, BaseSimulation(indent))
    /\ UNCHANGED <<sim_self, sim_result>>
    /\ UNCHANGED <<dl_vars, gen_vars, inst_vars, ic_vars, scr_vars>>

ModifySimulationSetupInit(simulation_path, args) ==
    /\ sim_self = NoSimulation
    /\ sim_result.call = "none"
    /\ \E done \in {SuperInit(args)} :
        /\ sim_self' = IF done.raised = ""
                       THEN SetupAttributes(done.self, simulation_path)
                       ELSE NoSimulation
        /\ sim_result' = CallEnded("__init__", done.raised)
    /\ UNCHANGED sim_files
    /\ UNCHANGED <<dl_vars, gen_vars, inst_vars, ic_vars, scr_vars>>

set_inflow_conditions ==
    /\ sim_self # NoSimulation
    /\ \E done \in {SetInflowConditions(sim_self, sim_files)} :
        /\ sim_files' = done.files
        /\ sim_result' = CallEnded("set_inflow_conditions", done.raised)
    /\ UNCHANGED sim_self
    /\ UNCHANGED <<dl_vars, gen_vars, inst_vars, ic_vars, scr_vars>>

alpha_setter(alpha) ==
    /\ sim_self # NoSimulation
    /\ \E done \in {SetAlpha(sim_self, sim_files, alpha)} :
        /\ sim_self' = done.self
        /\ sim_files' = done.files
        /\ sim_result' = CallEnded("alpha", done.raised)
    /\ UNCHANGED <<dl_vars, gen_vars, inst_vars, ic_vars, scr_vars>>

initialize_new_aoa ==
    /\ sim_self # NoSimulation
    /\ \E done \in {InitializeNewAoa(sim_self, sim_files)} :
        /\ sim_self' = done.self
        /\ sim_files' = done.files
        /\ sim_result' = CallEnded("initialize_new_aoa", done.raised)
    /\ UNCHANGED <<dl_vars, gen_vars, inst_vars, ic_vars, scr_vars>>

set_endTime(end_time) ==
    /\ sim_self # NoSimulation
    /\ \E done \in {SetEndTime(sim_self, sim_files, end_time)} :
        /\ sim_self' = done.self
        /\ sim_files' = done.files
        /\ sim_result' = CallEnded("set_endTime", done.raised)
    /\ UNCHANGED <<dl_vars, gen_vars, inst_vars, ic_vars, scr_vars>>

InitSetup ==
    /\ sim_self = NoSimulation
    /\ sim_files = NoDirectories
    /\ sim_result = CallEnded("none", "")

NextSetup ==
    \/ \E d \in PathArgs, indent \in Indents : create_run_directories(d, indent)
    \/ \E p \in PathArgs, args \in SetupArgs : ModifySimulationSetupInit(p, args)
    \/ set_inflow_conditions
    \/ \E alpha \in Alphas : alpha_setter(alpha)
    \/ initialize_new_aoa
    \/ \E t \in EndTimes : set_endTime(t)

----------------------------------------------------------------------------
(* LocalExecuter *)

\* the methods Executer declares with @abstractmethod (execution.py:27-41)
ExecuterAbstractMethods ==
    {"run_simulation", "clean_simulation", "set_initial_fields", "_execute"}

\* the methods LocalExecuter defines
LocalExecuterMethods == {"__init__", "run_simulation", "clean_simulation", "_execute"}

\* a call the script made: on a trial (or -1) at an angle (or None)
Event(call, trial, alpha) == [call |-> call, trial |-> trial, alpha |-> alpha]

\* for d in dirs: a list gives its paths, a string its characters
Iterate(dirs) ==
    IF "list" \in DOMAIN dirs THEN dirs.list
    ELSE CASE dirs.str = "validation_run" ->
                <<"v", "a", "l", "i", "d", "a", "t", "i", "o", "n", "_", "r", "u", "n">>

\* the positions of dirs whose d holds no Allrun.pre to open
Missing(dirs, files) ==
    {i \in DOMAIN Iterate(dirs) : Iterate(dirs)[i] \notin DOMAIN files}

\* the directories set_openfoam_bashrc is called with: every d in dirs up to
\* the first whose Allrun.pre cannot be opened
BashrcCalls(dirs, files) ==
    LET last == IF Missing(dirs, files) = {} THEN Len(Iterate(dirs))
                ELSE CHOOSE i \in Missing(dirs, files) :
                        \A j \in Missing(dirs, files) : i <= j
    IN  [i \in 1..last |->
            [call |-> "set_openfoam_bashrc", trial |-> -1, alpha |-> None,
             directory |-> Iterate(dirs)[i]]]

\* LocalExecuter(dirs, n_runner): a subclass of an ABC that leaves an abstract
\* method undefined is not instantiated and __init__ does not run; __init__
\* (lines 12-25) sets the attributes and calls set_openfoam_bashrc for d in dirs
LocalExecuterNew(dirs, n_runner, files) ==
    IF ExecuterAbstractMethods \ LocalExecuterMethods # {}
    THEN [raised |-> "TypeError", self |-> NoConditions, calls |-> <<>>]
    ELSE [raised |-> IF Missing(dirs, files) = {} THEN "" ELSE "FileNotFoundError",
          self |-> [dirs |-> dirs, n_runner |-> n_runner, timeout |-> 10000,
                    run_script |-> "Allrun", pre_run_script |-> "Allrun.pre",
                    clean_script |-> "Allclean"],
          calls |-> BashrcCalls(dirs, files)]

----------------------------------------------------------------------------
(* The scripts: run_optimization of main.py and execute_validation.py *)

\* the settings run_optimization is called with (the entries that vary)
Settings ==
    [N_simulations : {1, 2}, N_runner : {1, 2}, N_trials : {1, 2},
     Tu : {Rat(1, 100), RInt(2)}, U_inf : {None, RInt(20), RInt(25)},
     rho_inf : {RInt(1), RInt(2)}]

NoSettings ==
    [N_simulations |-> 0, N_runner |-> 0, N_trials |-> 0, Tu |-> RInt(0),
     U_inf |-> None, rho_inf |-> RInt(0)]

\* lines 28-31: parallel execution is switched off
Sequential(settings) ==
    IF settings.N_simulations > 1 \/ settings.N_runner > 1
    THEN [settings EXCEPT !.N_simulations = 1, !.N_runner = 1]
    ELSE settings

\* dirs (line 46)
RECURSIVE TrialDirectories(_)
TrialDirectories(n) ==
    IF n = 0 THEN <<>>
    ELSE TrialDirectories(n - 1) \o <<CASE n = 1 -> "trial_0" [] n = 2 -> "trial_1">>

\* the DataLoader of main.py:42 and of execute_validation.py:58
ScriptLoaderArgs ==
    [cl_target |-> Rat(2, 5), alpha_target |-> RInt(0), alpha_range |-> <<-2, 5>>,
     write_precision |-> 6, c1 |-> Rat(9, 20), c2 |-> Rat(2, 5), c3 |-> Rat(1, 20),
     value_not_converged |-> RInt(1)]

\* the two header lines of log.optimization (lines 51-52)
LogHeader ==
    <<<<W("trial"), W("f_max"), W("t_max"), W("xf"), W("KR"), W("N1"), W("N2"),
        W("objective")>>,
      <<W("-----"), W("--------"), W("--------"), W("--------"), W("--------"),
        W("--------"), W("--------"), W("---------")>>>>

\* the files with the file name added or overwritten in directory d
WriteFile(files, d, name, lines) ==
    [x \in (DOMAIN files) \cup {d} |->
        IF x # d THEN files[x]
        ELSE [f \in (IF d \in DOMAIN files THEN DOMAIN files[d] ELSE {}) \cup {name} |->
                 IF f = name THEN lines ELSE files[d][f]]]

\* the arguments of ModifySimulationSetup (main.py:55-56, execute_validation.py:49-50)
ScriptSetupArgs(script, settings) ==
    IF script = "main"
    THEN [tu |-> settings.Tu, reynolds_number |-> RInt(300000), c |-> Rat(3, 20),
          u_inf |-> settings.U_inf, ma_number |-> Rat(1, 10), T_inf |-> RInt(273),
          rho_inf |-> settings.rho_inf]
    ELSE [tu |-> Rat(1, 100), reynolds_number |-> RInt(300000), c |-> Rat(3, 20),
          u_inf |-> RInt(20), ma_number |-> Rat(1, 10), T_inf |-> RInt(273),
          rho_inf |-> RInt(1)]

\* the directories the script works in: dirs of main.py, validation_path
ScriptDirectories(script, settings) ==
    IF script = "main" THEN PathList(TrialDirectories(settings.N_simulations))
    ELSE PathString("validation_run")

\* n_runner of LocalExecuter (main.py:60, execute_validation.py:55)
ScriptRunners(script, settings) == IF script = "main" THEN settings.N_runner ELSE 1

\* the angles of the validation polar: arange(-5, 10 + 0.25, 0.25)
ValidationAngles == {Rat(i, 4) : i \in -20..40}

\* the best parameters an optimization saved (results_final_parameters.pt)
FinalParameters ==
    [N1 |-> Rat(1, 2), N2 |-> RInt(1), KR |-> Rat(1, 2), f_max |-> Rat(1, 50),
     xf |-> Rat(1, 2), t_max |-> Rat(1, 10)]

\* the STL file generate_airfoil writes for the parameters p on the chord
FinalStl(p, chord) == <<<<[stl_of |-> p, x_stop |-> chord]>>>>

\* the objects of the script with the variable name bound to the object
Bind(objects, name, object) ==
    [n \in (DOMAIN objects) \cup {name} |-> IF n = name THEN object ELSE objects[n]]

NoObjects == [n \in {} |-> NoConditions]

\* the script raised: it ends
Ended(error) ==
    /\ run_pc' = "ended"
    /\ run_error' = error

\* run_optimization(settings), lines 28-43
StartOptimization(settings) ==
    /\ run_pc = "idle"
    /\ run_script' = "main"
    /\ run_settings' = Sequential(settings)
    /\ IF RLess(RInt(1), settings.Tu)
       THEN /\ Ended("SystemExit")
            /\ UNCHANGED <<run_objects, run_log>>
       ELSE /\ run_pc' = "directories"
            /\ run_objects' = Bind(run_objects, "dataloader", NewLoader(ScriptLoaderArgs))
            /\ run_log' = Append(run_log, Event("DataLoader", -1, None))
            /\ UNCHANGED run_error
    /\ UNCHANGED sim_vars
    /\ UNCHANGED <<dl_vars, gen_vars, inst_vars, ic_vars>>

\* execute_validation.py, lines 19-35
StartValidation ==
    /\ run_pc = "idle"
    /\ run_script' = "execute_validation"
    /\ run_pc' = "directories"
    /\ UNCHANGED <<run_settings, run_objects, run_log, run_error>>
    /\ UNCHANGED sim_vars
    /\ UNCHANGED <<dl_vars, gen_vars, inst_vars, ic_vars>>

\* main.py:46-52 and execute_validation.py:38
CreateRunDirectories(indent) ==
    /\ run_pc = "directories"
    /\ \E copied \in {CopyBase(sim_files, ScriptDirectories(run_script, run_settings),
                               BaseSimulation(indent))} :
        IF run_script = "main"
        THEN /\ sim_files' = WriteFile(copied, "execute_training", "log.optimization",
                                       LogHeader)
             /\ run_pc' = "simulation"
        ELSE /\ sim_files' = copied
             /\ run_pc' = "final_parameters"
    /\ run_log' = Append(run_log, Event("create_run_directories", -1, None))
    /\ UNCHANGED <<run_script, run_settings, run_objects, run_error>>
    /\ UNCHANGED <<sim_self, sim_result>>
    /\ UNCHANGED <<dl_vars, gen_vars, inst_vars, ic_vars>>

\* execute_validation.py:41; the file exists when an optimization saved it
LoadFinalParameters(exists) ==
    /\ run_pc = "final_parameters"
    /\ IF exists
       THEN /\ run_objects' = Bind(run_objects, "final_params", FinalParameters)
            /\ run_pc' = "generate"
            /\ UNCHANGED run_error
       ELSE /\ Ended("FileNotFoundError")
            /\ UNCHANGED run_objects
    /\ UNCHANGED <<run_script, run_settings, run_log>>
    /\ UNCHANGED sim_vars
    /\ UNCHANGED <<dl_vars, gen_vars, inst_vars, ic_vars>>

\* execute_validation.py:42-46
GenerateFinalAirfoil ==
    /\ run_pc = "generate"
    /\ run_objects' = Bind(run_objects, "airfoil_generator",
                           [x_stop |-> Rat(3, 20), output |-> "stl"])
    /\ sim_files' = WriteFile(sim_files, "validation_run", "constant/triSurface/airfoil.stl",
                              FinalStl(run_objects["final_params"], Rat(3, 20)))
    /\ run_log' = Append(run_log, Event("generate_airfoil", -1, None))
    /\ run_pc' = "simulation"
    /\ UNCHANGED <<run_script, run_settings, run_error>>
    /\ UNCHANGED <<sim_self, sim_result>>
    /\ UNCHANGED <<dl_vars, gen_vars, inst_vars, ic_vars>>

\* main.py:55-56 and execute_validation.py:49-50
ConstructSimulation ==
    /\ run_pc = "simulation"
    /\ \E done \in {SuperInit(ScriptSetupArgs(run_script, run_settings))} :
        /\ sim_result' = CallEnded("__init__", done.raised)
        /\ IF done.raised = ""
           THEN /\ sim_self' = SetupAttributes(done.self,
                                   ScriptDirectories(run_script, run_settings))
                /\ run_pc' = "inflow"
                /\ UNCHANGED run_error
           ELSE /\ Ended(done.raised)
                /\ UNCHANGED sim_self
    /\ run_log' = Append(run_log, Event("ModifySimulationSetup", -1, None))
    /\ UNCHANGED <<run_script, run_settings, run_objects>>
    /\ UNCHANGED sim_files
    /\ UNCHANGED <<dl_vars, gen_vars, inst_vars, ic_vars>>

\* main.py:57 and execute_validation.py:51-52
SetInflow ==
    /\ run_pc = "inflow"
    /\ \E inflow \in {SetInflowConditions(sim_self, sim_files)} :
        IF run_script = "main"
        THEN /\ sim_files' = inflow.files
             /\ sim_result' = CallEnded("set_inflow_conditions", inflow.raised)
             /\ UNCHANGED sim_self
        ELSE \E done \in {SetEndTime(sim_self, inflow.files, 3500)} :
             /\ sim_files' = done.files
             /\ sim_self' = done.self
             /\ sim_result' = CallEnded("set_endTime", done.raised)
    /\ run_log' = Append(run_log, Event("set_inflow_conditions", -1, None))
    /\ run_pc' = "executer"
    /\ UNCHANGED <<run_script, run_settings, run_objects, run_error>>
    /\ UNCHANGED <<dl_vars, gen_vars, inst_vars, ic_vars>>

\* main.py:60 and execute_validation.py:55
ConstructExecuter ==
    /\ run_pc = "executer"
    /\ \E new \in {LocalExecuterNew(ScriptDirectories(run_script, run_settings),
                                    ScriptRunners(run_script, run_settings),
                                    sim_files)} :
        /\ run_log' = Append(run_log, Event("LocalExecuter", -1, None)) \o new.calls
        /\ IF new.raised # ""
           THEN /\ Ended(new.raised)
                /\ UNCHANGED run_objects
           ELSE /\ run_objects' = Bind(run_objects, "executer", new.self)
                /\ run_pc' = "loop"
                /\ UNCHANGED run_error
    /\ UNCHANGED <<run_script, run_settings>>
    /\ UNCHANGED sim_vars
    /\ UNCHANGED <<dl_vars, gen_vars, inst_vars, ic_vars>>

InitScripts ==
    /\ run_script = "none"
    /\ run_pc = "idle"
    /\ run_settings = NoSettings
    /\ run_objects = NoObjects
    /\ run_log = <<>>
    /\ run_error = ""

NextScripts ==
    \/ \E settings \in Settings : StartOptimization(settings)
    \/ StartValidation
    \/ \E indent \in Indents : CreateRunDirectories(indent)
    \/ \E exists \in BOOLEAN : LoadFinalParameters(exists)
    \/ GenerateFinalAirfoil
    \/ ConstructSimulation
    \/ SetInflow
    \/ ConstructExecuter

Init ==
    InitLoader /\ InitGenerator /\ InitInstances /\ InitConditions /\ InitSetup
        /\ InitScripts

NextLoader ==
    \/ \E args \in LoaderArgs : DataLoaderInit(args)
    \/ \E t \in Trials, dir \in RunDirectories : evaluate_trial(t, dir)

Next == NextLoader

Spec == Init /\ [][Next]_vars

SpecGenerator == Init /\ [][NextGenerator]_vars

SpecInstances == Init /\ [][NextInstances]_vars

SpecConditions == Init /\ [][NextConditions]_vars

SpecSetup == Init /\ [][NextSetup]_vars

SpecScripts == Init /\ [][NextScripts]_vars

----------------------------------------------------------------------------
(* Properties of the AirfoilGenerator *)

\* a generate_airfoil call has ended
GenCalled == gen_result.kind # "none"

\* the shape parameters of the last call are degenerate
DegenerateParameters ==
    gen_params.n1 <= 0 \/ gen_params.n2 <= 0 \/ RIsZero(gen_params.kr)

AllFinite(t) == \A i \in DOMAIN t : IsFinite(t[i])
FileFinite(f) ==
    \A i \in DOMAIN fs_files[f].points :
        IsFinite(fs_files[f].points[i][1]) /\ IsFinite(fs_files[f].points[i][2])

\* C9: generate_airfoil with n1 <= 0, n2 <= 0 or kr = 0 fails with
\* InvalidParameter and never returns or writes NaN or infinite coordinates.
C9_DegenerateParametersRejected ==
    (GenCalled /\ DegenerateParameters)
        => /\ gen_result = GenRaised("InvalidParameter")
           /\ AllFinite(gen_result.x) /\ AllFinite(gen_result.y)
           /\ \A f \in AirfoilFiles : FileFinite(f)

\* C10: generate_airfoil with xf = 0 raises InvalidParameter.
C10_XfZeroInvalidParameter ==
    (GenCalled /\ RIsZero(gen_params.xf_max))
        => gen_result = GenRaised("InvalidParameter")

\* the part of C10 the code keeps: a call with xf = 0 ends in an exception and
\* creates no directory and no file
XfZeroWritesNothing ==
    [][(gen_constructed /\ RIsZero(gen_params'.xf_max))
          => (gen_result'.kind = "raised" /\ UNCHANGED <<fs_dirs, fs_files>>)]_vars

\* the outline a newly constructed generator with the same configuration gives
\* for the parameters of the last call
FreshOutline ==
    LET x == ResetCoordinates(gen_cfg)
    IN  Outline(x, ThicknessDistribution(x, gen_params.n1, gen_params.n2, gen_params.kr),
                CamberLine(x, gen_params.f_max, gen_params.xf_max), gen_params.t_max,
                gen_cfg)

\* the last call got as far as assembling an outline
OutlineProduced == GenCalled /\ gen_outline # NoOutline

\* C11: whatever calls came before and however they ended, a generate_airfoil call
\* starts from the construction-time grid of n_points samples on the unit
\* interval, and the outline it produces is the one a fresh generator produces.
C11_CallsStartFromFreshGrid ==
    /\ GenCalled => gen_grid = ResetCoordinates(gen_cfg)
    /\ OutlineProduced => gen_outline = FreshOutline

\* the shape parameters of the last call are valid: n1 > 0, n2 > 0, kr # 0 and
\* 0 < xf < 1
ValidParameters ==
    /\ gen_params.n1 > 0 /\ gen_params.n2 > 0
    /\ ~RIsZero(gen_params.kr)
    /\ RLess(RInt(0), gen_params.xf_max) /\ RLess(gen_params.xf_max, RInt(1))

\* the last call started from the grid __init__ computed
FreshStart == gen_grid = ResetCoordinates(gen_cfg)

FLessEq(a, b) == IsFinite(a) /\ IsFinite(b) /\ ~RLess(b, a)

\* o is a closed outline of 2n - 1 points from the trailing edge along
\* non-increasing x to the leading edge and along non-decreasing x back
ClosedOrdered(o, n, cfg) ==
    /\ Len(o.x) = 2 * n - 1 /\ Len(o.y) = 2 * n - 1
    /\ o.x[1] = cfg.x_stop
    /\ \A i \in 1..(n - 1) : FLessEq(o.x[i + 1], o.x[i])
    /\ o.x[n] = cfg.x_start
    /\ \A i \in n..(2 * n - 2) : FLessEq(o.x[i], o.x[i + 1])
    /\ o.x[1] = o.x[2 * n - 1]
    /\ IsFinite(o.y[1]) /\ o.y[1] = o.y[2 * n - 1]

\* C12: the outline generate_airfoil produces (for valid shape parameters, from
\* the construction-time grid) has 2*n_points - 1 points, starts at the trailing
\* edge, runs with non-increasing x to the leading edge and with non-decreasing x
\* back to the trailing edge, and its first and last points coincide.
C12_OutlineClosedOrdered ==
    (OutlineProduced /\ ValidParameters /\ FreshStart)
        => ClosedOrdered(gen_outline, gen_cfg.n_points, gen_cfg)

\* the x-coordinates of o lie in [x_start, x_stop] and the minimum is taken once
XWithinChordOneLeadingEdge(o, cfg) ==
    /\ \A i \in DOMAIN o.x : FLessEq(cfg.x_start, o.x[i]) /\ FLessEq(o.x[i], cfg.x_stop)
    /\ Cardinality({i \in DOMAIN o.x : o.x[i] = TensorMin(o.x)}) = 1

\* C13: for valid shape parameters and every configuration with x_start < x_stop,
\* cosine or uniform, every x of the outline lies in [x_start, x_stop] and the
\* leading-edge point (minimum x) appears exactly once.
C13_XWithinChordOneLeadingEdge ==
    (OutlineProduced /\ ValidParameters /\ FreshStart
        /\ RLess(gen_cfg.x_start, gen_cfg.x_stop))
        => XWithinChordOneLeadingEdge(gen_outline, gen_cfg)

\* the file a file-mode call with the attributes params is to write
ArtifactPath(params, cfg) ==
    <<params.write_path, params.name, IF cfg.write_dat_file THEN "dat" ELSE "stl">>

\* C14: a generate_airfoil call that succeeds in file mode writes exactly one
\* artifact, <write_path>/<name>.dat for output 'dat' and <write_path>/<name>.stl
\* otherwise, holding the outline under the airfoil's name, and returns None; a
\* call in return mode returns the (x, y) sequence, writes no file and creates no
\* directory.
C14_OneArtifactOrReturn ==
    [][(gen_constructed /\ gen_result'.kind = "returned")
         => IF gen_params'.write_file
            THEN /\ gen_result' = GenReturnedNone
                 /\ gen_params'.write_path \in fs_dirs'
                 /\ fs_files'[ArtifactPath(gen_params', gen_cfg)].exists
                 /\ fs_files'[ArtifactPath(gen_params', gen_cfg)].name = gen_params'.name
                 /\ Len(fs_files'[ArtifactPath(gen_params', gen_cfg)].points)
                       = Len(gen_outline'.x)
                 /\ \A f \in AirfoilFiles \ {ArtifactPath(gen_params', gen_cfg)} :
                       fs_files'[f] = fs_files[f]
            ELSE /\ gen_result'.x = gen_outline'.x /\ gen_result'.y = gen_outline'.y
                 /\ Len(gen_result'.x) > 0
                 /\ UNCHANGED <<fs_dirs, fs_files>>]_vars

C14_Witness ==
    /\ gen_result = GenReturnedNone
    /\ gen_params.write_file
    /\ gen_cfg.write_dat_file
    /\ fs_files[<<"triSurface", "airfoil", "dat">>].exists
    /\ ~fs_files[<<"triSurface", "airfoil", "stl">>].exists

----------------------------------------------------------------------------
(* Properties of the polar file *)

\* v is x at p decimals: v * 10^p is an integer and |v - x| <= 10^-p / 2
AtPrecision(v, x, p) ==
    /\ Pow10(p) % v[2] = 0
    /\ ~RLess(Rat(1, 2 * Pow10(p)), RAbs(RSub(v, x)))

\* the row of the DataFrame df holds angle a and its coefficients at p decimals
RowRecovers(row, a, p) ==
    /\ AtPrecision(row.alpha, FloatOf(a), p)
    /\ AtPrecision(row.cd, dl_scored.coefficients[a].cx, p)
    /\ AtPrecision(row.cl, dl_scored.coefficients[a].cy, p)
    /\ AtPrecision(row.cm_pitch, dl_scored.coefficients[a].cm_pitch, p)

\* the last call returned, for a non-empty polar of the angles it loaded
PolarWritten ==
    dl_result.kind = "returned" /\ dl_scored.alpha = dl_loaded /\ dl_loaded # <<>>

\* C15: the polar file of a trial has the header on line 1, the rule on line 2 and
\* then one row per angle of the polar in ascending angle order, each with the
\* angle, cx (as cd), cy (as cl) and cm_pitch, so that load_polar_files gives
\* back per angle the values written at the configured precision.
C15_PolarFileRoundTrip ==
    PolarWritten =>
        /\ polar_file.exists /\ polar_file.trial_no = dl_trial_no
        /\ PolarLines(polar_file)[1] = <<"alpha", "cd", "cl", "cm_pitch">>
        /\ PolarLines(polar_file)[2] = [i \in 1..4 |-> dl_cfg.precision + 2]
        /\ Len(load_polar_files(polar_file)) = Cardinality(ScoredAngles)
        /\ \A i \in 1..(Len(load_polar_files(polar_file)) - 1) :
              RLess(load_polar_files(polar_file)[i].alpha,
                    load_polar_files(polar_file)[i + 1].alpha)
        /\ \A a \in ScoredAngles :
              \E i \in DOMAIN load_polar_files(polar_file) :
                  RowRecovers(load_polar_files(polar_file)[i], a, dl_cfg.precision)

\* a polar of three angles written at one decimal, where cx is rounded
C15_Witness ==
    /\ PolarWritten
    /\ Cardinality(ScoredAngles) = 3
    /\ dl_cfg.precision = 1
    /\ Len(load_polar_files(polar_file)) = 3
    /\ load_polar_files(polar_file)[1].cd # dl_scored.coefficients["-2"].cx

----------------------------------------------------------------------------
(* Properties of two instances *)

----------------------------------------------------------------------------
(* Properties of the thickness scaling and of the sample spacing *)

\* the largest of the finite values of t, NaN if one is not finite
RECURSIVE FiniteMax(_)
FiniteMax(t) ==
    IF Len(t) = 0 THEN RInt(0)
    ELSE IF ~IsFinite(Head(t)) \/ ~IsFinite(FiniteMax(Tail(t))) THEN NaN
    ELSE IF RLess(FiniteMax(Tail(t)), Head(t)) THEN Head(t) ELSE FiniteMax(Tail(t))

\* the maximum over the chordwise samples of suction-side y minus pressure-side
\* y of an outline of 2n - 1 points (sample k is at n + 1 - k and at n - 1 + k)
MaxThickness(o, n) ==
    FiniteMax([k \in 1..(n - 1) |-> FSub(o.y[n - k], o.y[n + k])])

\* the outline of the last call's parameters and grid with t_max halved
HalvedOutline ==
    Outline(gen_grid,
            ThicknessDistribution(gen_grid, gen_params.n1, gen_params.n2, gen_params.kr),
            CamberLine(gen_grid, gen_params.f_max, gen_params.xf_max),
            RMul(Rat(1, 2), gen_params.t_max), gen_cfg)

\* the maximum thickness is t_max times the chord and halves with t_max
ThicknessLinear ==
    /\ MaxThickness(gen_outline, gen_cfg.n_points)
          = RMul(gen_params.t_max, RSub(gen_cfg.x_stop, gen_cfg.x_start))
    /\ IsFinite(MaxThickness(HalvedOutline, gen_cfg.n_points))
    /\ RMul(RInt(2), MaxThickness(HalvedOutline, gen_cfg.n_points))
          = MaxThickness(gen_outline, gen_cfg.n_points)

\* C17: for all valid shape parameters, halving t_max (everything else fixed)
\* halves the maximum thickness of the outline, which is t_max times the chord
\* length x_stop - x_start.
C17_ThicknessHalves ==
    (OutlineProduced /\ ValidParameters /\ FreshStart) => ThicknessLinear

\* what the code keeps of C17: the thickness is linear in t_max when kr > 0
ThicknessHalvesPositiveKr ==
    (OutlineProduced /\ ValidParameters /\ FreshStart /\ RLess(RInt(0), gen_params.kr))
        => ThicknessLinear

\* the distance between samples i and i + 1 of the grid x
Spacing(x, i) == RAbs(FSub(x[i + 1], x[i]))

\* the grid x of n samples on the unit interval is denser than the uniform grid
\* (spacing 1 / (n - 1)) at both ends
DenserAtEnds(x, n) ==
    /\ RLess(Spacing(x, 1), Rat(1, n - 1))
    /\ RLess(Spacing(x, n - 1), Rat(1, n - 1))

\* C18: for n_points > 2 and x_start < x_stop the cosine-distributed samples are
\* spaced more densely than uniform samples near x_start and near x_stop.
C18_CosineDenserAtEnds ==
    (gen_constructed /\ gen_cfg.cos_distributed /\ gen_cfg.n_points > 2
        /\ RLess(gen_cfg.x_start, gen_cfg.x_stop))
        => DenserAtEnds(ResetCoordinates(gen_cfg), gen_cfg.n_points)

\* what the code keeps of C18: the samples are denser at both ends when the
\* chord has length 1 and more than three samples are taken
CosineDenserUnitChord ==
    (gen_constructed /\ gen_cfg.cos_distributed /\ gen_cfg.n_points > 3
        /\ RSub(gen_cfg.x_stop, gen_cfg.x_start) = RInt(1))
        => DenserAtEnds(ResetCoordinates(gen_cfg), gen_cfg.n_points)

----------------------------------------------------------------------------
(* Loading the force coefficients of a polar *)

\* the last time-sample of the coefficient file f as (cx, cy, cm_pitch)
LastSample(f) ==
    <<f.rows[Len(f.rows)].cx, f.rows[Len(f.rows)].cy, f.rows[Len(f.rows)].cm_pitch>>

\* the sample the loop of _load_force_coefficients stored under the label l
\* is the last time-sample of the file f, or the marker [] when f is missing
OneSample(l, f) ==
    /\ l \in DOMAIN dl_scored.coefficients
    /\ IF f.exists
       THEN /\ IsSeries(dl_scored.coefficients[l])
            /\ <<dl_scored.coefficients[l].cx, dl_scored.coefficients[l].cy,
                 dl_scored.coefficients[l].cm_pitch>> = LastSample(f)
       ELSE dl_scored.coefficients[l] = EmptyList

\* the labels the loop appended to self._alpha: the entries after those the
\* call found in the list
Appended ==
    SubSeq(dl_scored.alpha, Len(dl_scored.alpha) - Len(dl_loaded) + 1,
           Len(dl_scored.alpha))

----------------------------------------------------------------------------
(* Properties of ComputeInitialConditions *)

\* the turbulence level of the instance in percent
TuPercent == RMul(ic_self.tu, RInt(100))

\* C20: ComputeInitialConditions selects the Re_theta correlation by the
\* turbulence level Tu in percent: Re_theta = 1173.51 - 589.428*Tu + 0.2196/Tu^2
\* for Tu <= 1.3 and Re_theta = 331.5 / (Tu - 0.5658)^0.671 for Tu > 1.3.
C20_ReThetaCorrelation ==
    (ic_result = "constructed" /\ ~RIsZero(ic_self.tu)) =>
        ic_self.re_theta = IF ~RLess(Rat(13, 10), TuPercent)
                           THEN LinearCorrelation(TuPercent)
                           ELSE PowerCorrelation(TuPercent)

\* what the code does: the linear correlation is selected for Tu >= 1.3 and the
\* power correlation for Tu < 1.3
ReThetaCorrelationOfCode ==
    ic_result = "constructed" =>
        ic_self.re_theta = IF ~RLess(TuPercent, Rat(13, 10))
                           THEN LinearCorrelation(TuPercent)
                           ELSE PowerCorrelation(TuPercent)

\* an instance with Tu = 1 percent holds the power correlation of base 0.4342
ReThetaOnePercent ==
    /\ ic_result = "constructed"
    /\ TuPercent = RInt(1)
    /\ ic_self.re_theta = Quotient(Rat(3315, 10), Power(Rat(4342, 10000), Rat(671, 1000)))

\* Ma * sqrt(gamma * R * T) for the arguments args
DerivedVelocity(args) ==
    [factor |-> args.ma_number,
     root |-> Sqrt(SoundSpeedSquared(ConditionAttributes(args)))]

\* C21: constructed with u_inf = None and a Mach number given, the free-stream
\* velocity is derived as Ma * sqrt(gamma * R * T) and stored, k, omega and nu
\* are computed from it and the construction completes without error.
C21_VelocityFromMachNumber ==
    (ic_result # "none" /\ ic_args.u_inf = None /\ ic_args.ma_number # None) =>
        /\ ic_result = "constructed"
        /\ ic_self.u_inf = DerivedVelocity(ic_args)
        /\ {"k", "omega", "nu"} \subseteq DOMAIN ic_self

\* what the code does: with u_inf = None every construction ends in TypeError
VelocityNoneRaises ==
    (ic_result # "none" /\ ic_args.u_inf = None) =>
        ic_result = "TypeError" /\ ic_self = NoConditions

----------------------------------------------------------------------------
(* Properties of ModifySimulationSetup *)

\* the lines of a file that start with the key
KeyedLines(lines, key) ==
    {i \in DOMAIN lines : StartsWith(Strip(lines[i]), <<W(key)>>)}

\* the number a line "<key> <number>;" holds
NumberOf(line) ==
    LET piece == Strip(line)[Len(Strip(line)) - 1]
    IN  IF "fixed" \in DOMAIN piece THEN piece.fixed
        ELSE CASE piece.word = "20.0" -> RInt(20)
               [] piece.word = "1" -> RInt(1)
               [] OTHER -> NaN

\* the file has a line with the key, and every such line holds the value
HoldsValue(lines, key, value) ==
    /\ KeyedLines(lines, key) # {}
    /\ \A i \in KeyedLines(lines, key) : NumberOf(lines[i]) = value

\* a call of set_inflow_conditions that returned
InflowConditionsSet ==
    /\ sim_result.call # "set_inflow_conditions"
    /\ sim_result'.call = "set_inflow_conditions"
    /\ sim_result'.raised = ""

\* the lines of the file of directory p without one of the keys are as before
OtherLinesUnchanged(p, file, keys) ==
    \A i \in DOMAIN sim_files[p][file] :
        (\A k \in keys : i \notin KeyedLines(sim_files[p][file], k))
            => sim_files'[p][file][i] = sim_files[p][file][i]

\* C22: set_inflow_conditions rewrites the Uinlet and rhoInf entries of
\* system/FO_forces to the configured velocity and density as it rewrites Uinlet
\* in 0.orig/U: after the call every patched file holds the configured value on
\* its keyed line and all other lines are unchanged.
C22_InflowEntriesPatched ==
    [][InflowConditionsSet =>
        \A n \in DOMAIN sim_self.path :
            /\ HoldsValue(sim_files'[sim_self.path[n]]["0.orig/U"], "Uinlet", sim_self.u_inf)
            /\ HoldsValue(sim_files'[sim_self.path[n]]["system/FO_forces"], "Uinlet",
                          sim_self.u_inf)
            /\ HoldsValue(sim_files'[sim_self.path[n]]["system/FO_forces"], "rhoInf",
                          sim_self.rho)
            /\ OtherLinesUnchanged(sim_self.path[n], "0.orig/U", {"Uinlet"})
            /\ OtherLinesUnchanged(sim_self.path[n], "system/FO_forces",
                                   {"Uinlet", "rhoInf"})]_vars

\* what the code does: Uinlet of 0.orig/U is rewritten and system/FO_forces is
\* left as it was
ForcesFileUntouched ==
    [][InflowConditionsSet =>
        \A n \in DOMAIN sim_self.path :
            /\ HoldsValue(sim_files'[sim_self.path[n]]["0.orig/U"], "Uinlet", sim_self.u_inf)
            /\ OtherLinesUnchanged(sim_self.path[n], "0.orig/U", {"Uinlet"})
            /\ sim_files'[sim_self.path[n]]["system/FO_forces"]
                   = sim_files[sim_self.path[n]]["system/FO_forces"]]_vars

----------------------------------------------------------------------------
(* Properties of the scripts *)

\* the positions of the log at which the call is made for trial t
CallsOf(call, t) ==
    {i \in DOMAIN run_log : run_log[i].call = call /\ run_log[i].trial = t}

\* the trial's calls in order: geometry, the runs (initialize_new_aoa before
\* every run but the first, one of them at alpha_target), evaluate_trial,
\* complete_trial once, clean_simulation
TrialInOrder(t) ==
    \E g \in CallsOf("generate_airfoil", t), e \in CallsOf("evaluate_trial", t),
       c \in CallsOf("complete_trial", t), k \in CallsOf("clean_simulation", t) :
        /\ g < e /\ e < c /\ c < k
        /\ CallsOf("complete_trial", t) = {c}
        /\ \A r \in CallsOf("run_simulation", t) :
              /\ g < r /\ r < e
              /\ \/ \A q \in CallsOf("run_simulation", t) : r <= q
                 \/ run_log[r - 1].call = "initialize_new_aoa"
        /\ \E r \in CallsOf("run_simulation", t) :
              run_log[r].alpha = ScriptLoaderArgs.alpha_target

\* run_optimization has ended after the check of Tu
OptimizationEnded ==
    run_script = "main" /\ run_pc = "ended" /\ run_error # "SystemExit"

\* C23: when run_optimization has ended, every one of its N_trials trials has
\* made its calls in order: the geometry is written, the solver runs once per
\* angle with initialize_new_aoa before every run but the first and alpha_target
\* among the angles, evaluate_trial, complete_trial exactly once, clean_simulation
C23_TrialStepsInOrder ==
    OptimizationEnded =>
        \A t \in 0..(run_settings.N_trials - 1) : TrialInOrder(t)

\* no call of the trial loop is ever made
NoTrialCall ==
    \A i \in DOMAIN run_log :
        run_log[i].call \notin {"get_next_trial", "generate_airfoil", "run_simulation",
                                "initialize_new_aoa", "evaluate_trial",
                                "complete_trial", "clean_simulation"}
        \/ run_script # "main"

\* run_optimization never gets past the construction of the executer: it ends
\* there with a TypeError, or before
OptimizationEndsAtExecuter ==
    run_script = "main" =>
        /\ run_pc # "loop"
        /\ NoTrialCall
        /\ run_pc = "ended" => run_error \in {"SystemExit", "TypeError"}

\* C24: when run_optimization has ended, the first run of every trial was made
\* with the end time 2000 and every later run of the trial with 500
C24_FirstAngleFullEndTime ==
    OptimizationEnded =>
        \A t \in 0..(run_settings.N_trials - 1) :
            /\ CallsOf("run_simulation", t) # {}
            /\ \A r \in CallsOf("run_simulation", t) :
                  run_log[r].end_time =
                      IF \A q \in CallsOf("run_simulation", t) : r <= q
                      THEN 2000 ELSE 500

\* once initialize_new_aoa has reduced the end time to 500, every call other
\* than set_endTime leaves it, and the endTime line of controlDict, at 500
EndTimeStaysReduced ==
    [][(/\ sim_self # NoSimulation
        /\ sim_self.end_time = 500
        /\ sim_result'.call # "set_endTime")
       => /\ sim_self'.end_time = 500
          /\ \A d \in DOMAIN sim_files :
                sim_files'[d]["system/controlDict"] = sim_files[d]["system/controlDict"]]_vars

\* the validation script has ended with the final parameters loaded
ValidationEnded ==
    /\ run_script = "execute_validation"
    /\ run_pc = "ended"
    /\ run_error # "FileNotFoundError"

\* C25: when the validation script has ended, the solver was run once at every
\* angle of the validation range and evaluate_trial read the polar afterwards
C25_ValidationRunsEveryAngle ==
    ValidationEnded =>
        /\ \A a \in ValidationAngles :
              Cardinality({r \in CallsOf("run_simulation", -1) :
                              run_log[r].alpha = a}) = 1
        /\ \E e \in CallsOf("evaluate_trial", -1) :
              \A r \in CallsOf("run_simulation", -1) : r < e

\* the validation script never changes the angle of its setup: alpha is the 0
\* of the constructor wherever the script is
ValidationAngleNeverSet ==
    (run_script = "execute_validation" /\ sim_self # NoSimulation)
        => sim_self.alpha = RInt(0) /\ sim_self.alpha_old = RInt(0)

\* the directories set_openfoam_bashrc was called with, in order
BashrcDirectories ==
    LET calls == SelectSeq(run_log, LAMBDA e : e.call = "set_openfoam_bashrc")
    IN  [i \in DOMAIN calls |-> calls[i].directory]

\* C26: once a script has called LocalExecuter, the executer exists and the
\* bashrc setup was applied to exactly the configured run directories, once
\* each and in order, for a list of paths and for a single path string
C26_ExecuterOnConfiguredDirectories ==
    CallsOf("LocalExecuter", -1) # {} =>
        /\ "executer" \in DOMAIN run_objects
        /\ BashrcDirectories = AsList(ScriptDirectories(run_script, run_settings))

\* every LocalExecuter call of the scripts raises TypeError: no executer is
\* ever bound and no bashrc setup is made
ExecuterNeverConstructed ==
    /\ "executer" \notin DOMAIN run_objects
    /\ BashrcDirectories = <<>>
    /\ CallsOf("LocalExecuter", -1) # {} => run_pc = "ended" /\ run_error = "TypeError"

\* for d in dirs over the single path string gives its characters, not the path
StringIteratedByCharacter ==
    Iterate(PathString("validation_run")) # AsList(PathString("validation_run"))

====
